---------------------------- MODULE Spec2Model ----------------------------
(***************************************************************************)
(* Model of the RWA-Studio compliance engine: the RWAToken ledger, the     *)
(* IdentityRegistry, the ComplianceModule aggregator and its five rule     *)
(* contracts (InvestorLimitRule, GeographicRule, AccreditedInvestorRule,   *)
(* HoldingPeriodRule, TransferLimitRule).                                  *)
(*                                                                         *)
(* Every contract is one variable holding a record of its storage fields.  *)
(* A call that reverts leaves the state unchanged, so an action's guard is *)
(* the conjunction of the call's require conditions.  A view function is   *)
(* an operator whose value is "true", "false" or "revert" (a checked       *)
(* uint256 operation that overflows aborts the call).  uint256 is scaled   *)
(* down to UintBits bits.                                                  *)
(***************************************************************************)
EXTENDS Integers, Sequences, FiniteSets, TLC

VARIABLES token, registry, compliance, ilr, geo, acc, hpr, tlr, now, factory

vars == <<token, registry, compliance, ilr, geo, acc, hpr, tlr, now, factory>>

-----------------------------------------------------------------------------
(* Bounds of the model *)

UintBits == 4
MaxUint == 2 ^ UintBits - 1

MaxSupply == 3
MaxInvestorsBound == 2
MaxTime == 4
MaxPrice == 3
MaxRules == 3
MaxAggRules == 2

-----------------------------------------------------------------------------
(* Addresses, callers and enumerations *)

Zero == "0x0"
Accounts == {"A", "B", "C"}
Addresses == Accounts \cup {Zero}
Admin == "admin"
Callers == Accounts \cup {Admin}

LevelNone == 0
LevelBasic == 1
LevelAccredited == 2
LevelInstitutional == 3
Levels == {LevelNone, LevelBasic, LevelAccredited, LevelInstitutional}

Jurisdictions == {"US", "KP"}

RuleILR == "InvestorLimitRule"
RuleGEO == "GeographicRule"
RuleACC == "AccreditedInvestorRule"
RuleHPR == "HoldingPeriodRule"
RuleTLR == "TransferLimitRule"
RuleKinds == {RuleILR, RuleGEO, RuleACC, RuleHPR, RuleTLR}

B(b) == IF b THEN "true" ELSE "false"

-----------------------------------------------------------------------------
(* EnumerableSet.AddressSet: an array of values plus an index; add appends,  *)
(* remove moves the last value into the freed slot and pops.                 *)

SetContains(s, x) == \E i \in 1..Len(s) : s[i] = x

SetAdd(s, x) == IF SetContains(s, x) THEN s ELSE Append(s, x)

SetRemove(s, x) ==
    IF ~SetContains(s, x) THEN s
    ELSE LET i == CHOOSE k \in 1..Len(s) : s[k] = x
             n == Len(s)
             moved == IF i = n THEN s ELSE [s EXCEPT ![i] = s[n]]
         IN SubSeq(moved, 1, n - 1)

-----------------------------------------------------------------------------
(* IdentityRegistry: views *)

NoIdentity ==
    [isVerified |-> FALSE, level |-> LevelNone, jurisdiction |-> "",
     expirationDate |-> 0]

IsExpired(expirationDate) == now > expirationDate

RegistryIsVerified(account) ==
    LET identity == registry.identities[account]
    IN identity.isVerified /\ ~IsExpired(identity.expirationDate)

GetVerificationLevel(account) ==
    LET identity == registry.identities[account]
    IN IF ~identity.isVerified \/ IsExpired(identity.expirationDate)
       THEN LevelNone
       ELSE identity.level

GetIdentity(account) == registry.identities[account]

(* A variant that admits the agents of the list only. *)
OnlyAuthorizedAgentsOnly(sender) ==
    sender \in registry.authorizedAgents

OnlyAuthorized(sender) ==
    sender \in registry.authorizedAgents \/ sender = registry.owner

-----------------------------------------------------------------------------
(* InvestorLimitRule *)

BalanceOf(account) == token.balances[account]

ILRCanTransfer(from, to, amount) ==
    IF ~ilr.active THEN "true"
    ELSE IF from = Zero
         THEN IF ~ilr.isInvestor[to] /\ amount > 0
              THEN B(ilr.currentInvestorCount < ilr.maxInvestors)
              ELSE "true"
    ELSE IF to = Zero THEN "true"
    ELSE IF BalanceOf(to) = 0 /\ amount > 0 /\ ~ilr.isInvestor[to]
         THEN B(ilr.currentInvestorCount < ilr.maxInvestors)
         ELSE "true"

(* updateInvestorCount(from, to, amount) run on rule state r against the     *)
(* balances bal the token reports at the time of the call.  The call aborts  *)
(* when a checked increment or decrement of the counter leaves uint256.      *)
UpdateInvestorCountReverts(r, bal, from, to, amount) ==
    IF ~r.active THEN FALSE
    ELSE IF from = Zero /\ amount > 0
         THEN ~r.isInvestor[to] /\ r.currentInvestorCount + 1 > MaxUint
    ELSE IF to = Zero
         THEN bal[from] = amount /\ r.isInvestor[from] /\ r.currentInvestorCount = 0
    ELSE IF amount > 0
         THEN LET senderLeaves == bal[from] = amount /\ r.isInvestor[from]
                  flagTo == IF senderLeaves /\ from = to THEN FALSE ELSE r.isInvestor[to]
                  count1 == IF senderLeaves THEN r.currentInvestorCount - 1
                            ELSE r.currentInvestorCount
              IN \/ senderLeaves /\ r.currentInvestorCount = 0
                 \/ bal[to] = 0 /\ ~flagTo /\ count1 + 1 > MaxUint
    ELSE FALSE

UpdateInvestorCount(r, bal, from, to, amount) ==
    IF ~r.active THEN r
    ELSE IF from = Zero /\ amount > 0
         THEN IF ~r.isInvestor[to]
              THEN [r EXCEPT !.isInvestor[to] = TRUE,
                             !.currentInvestorCount = @ + 1]
              ELSE r
    ELSE IF to = Zero
         THEN IF bal[from] = amount /\ r.isInvestor[from]
              THEN [r EXCEPT !.isInvestor[from] = FALSE,
                             !.currentInvestorCount = @ - 1]
              ELSE r
    ELSE IF amount > 0
         THEN LET r1 == IF bal[from] = amount /\ r.isInvestor[from]
                        THEN [r EXCEPT !.isInvestor[from] = FALSE,
                                       !.currentInvestorCount = @ - 1]
                        ELSE r
              IN IF bal[to] = 0 /\ ~r1.isInvestor[to]
                 THEN [r1 EXCEPT !.isInvestor[to] = TRUE,
                                 !.currentInvestorCount = @ + 1]
                 ELSE r1
    ELSE r

(* The loop of initializeInvestorCount over investors[i..]. *)
RECURSIVE InitializeLoop(_, _, _)
InitializeLoop(r, investors, i) ==
    IF i > Len(investors) THEN r
    ELSE LET a == investors[i]
             r1 == IF BalanceOf(a) > 0
                   THEN IF ~r.isInvestor[a]
                        THEN [r EXCEPT !.isInvestor[a] = TRUE,
                                       !.currentInvestorCount = @ + 1]
                        ELSE r
                   ELSE IF r.isInvestor[a]
                        THEN [r EXCEPT !.isInvestor[a] = FALSE]
                        ELSE r
         IN InitializeLoop(r1, investors, i + 1)

InitializeInvestorCountResult(investors) ==
    InitializeLoop([ilr EXCEPT !.currentInvestorCount = 0], investors, 1)

-----------------------------------------------------------------------------
(* GeographicRule *)

(* A variant with the meaning of the two modes exchanged. *)
IsJurisdictionAllowedModesSwapped(account) ==
    LET identity == GetIdentity(account)
    IN IF ~identity.isVerified THEN FALSE
       ELSE IF geo.isAllowlistMode
            THEN identity.jurisdiction \notin geo.jurisdictionStatus
            ELSE identity.jurisdiction \in geo.jurisdictionStatus

IsJurisdictionAllowed(account) ==
    LET identity == GetIdentity(account)
    IN IF ~identity.isVerified THEN FALSE
       ELSE IF geo.isAllowlistMode
            THEN identity.jurisdiction \in geo.jurisdictionStatus
            ELSE identity.jurisdiction \notin geo.jurisdictionStatus

GEOCanTransfer(from, to, amount) ==
    IF ~geo.active THEN "true"
    ELSE IF from = Zero THEN B(IsJurisdictionAllowed(to))
    ELSE IF to = Zero THEN B(IsJurisdictionAllowed(from))
    ELSE B(IsJurisdictionAllowed(from) /\ IsJurisdictionAllowed(to))

-----------------------------------------------------------------------------
(* AccreditedInvestorRule *)

IsAccredited(account) ==
    IF account \in acc.exemptAddresses THEN TRUE
    ELSE GetVerificationLevel(account) >= acc.minimumLevel

(* A variant that requires the sender of a transfer to be accredited too. *)
ACCCanTransferBothParties(from, to, amount) ==
    IF ~acc.active THEN "true"
    ELSE IF from = Zero THEN B(IsAccredited(to))
    ELSE IF to = Zero THEN "true"
    ELSE B(IsAccredited(from) /\ IsAccredited(to))

ACCCanTransfer(from, to, amount) ==
    IF ~acc.active THEN "true"
    ELSE IF from = Zero THEN B(IsAccredited(to))
    ELSE IF to = Zero THEN "true"
    ELSE B(IsAccredited(to))

-----------------------------------------------------------------------------
(* HoldingPeriodRule *)

ApplicablePeriod(account) ==
    IF hpr.hasCustomHoldingPeriod[account]
    THEN hpr.customHoldingPeriods[account]
    ELSE hpr.holdingPeriod

(* A variant that reads an unset acquisition time as time zero. *)
HasHoldingPeriodPassedFromZero(account) ==
    LET acquiredAt == hpr.acquisitionTimestamp[account]
    IN IF acquiredAt + ApplicablePeriod(account) > MaxUint THEN "revert"
       ELSE B(now >= acquiredAt + ApplicablePeriod(account))

HasHoldingPeriodPassed(account) ==
    LET acquiredAt == hpr.acquisitionTimestamp[account]
    IN IF acquiredAt = 0 THEN "false"
       ELSE IF acquiredAt + ApplicablePeriod(account) > MaxUint THEN "revert"
       ELSE B(now >= acquiredAt + ApplicablePeriod(account))

(* getTimeRemaining: the view's result, or its abort when the checked        *)
(* addition acquiredAt + applicablePeriod overflows.                         *)
GetTimeRemaining(account) ==
    LET acquiredAt == hpr.acquisitionTimestamp[account]
        unlockTime == acquiredAt + ApplicablePeriod(account)
    IN IF account \in hpr.exemptAddresses THEN [reverts |-> FALSE, result |-> 0]
       ELSE IF acquiredAt = 0 THEN [reverts |-> FALSE, result |-> MaxUint]
       ELSE IF unlockTime > MaxUint THEN [reverts |-> TRUE, result |-> 0]
       ELSE IF now >= unlockTime THEN [reverts |-> FALSE, result |-> 0]
       ELSE [reverts |-> FALSE, result |-> unlockTime - now]

(* A variant that does not look at the active flag. *)
HPRCanTransferAlwaysOn(from, to, amount) ==
    IF from = Zero THEN "true"
    ELSE IF to = Zero THEN "true"
    ELSE IF from \in hpr.exemptAddresses THEN "true"
    ELSE HasHoldingPeriodPassed(from)

HPRCanTransfer(from, to, amount) ==
    IF ~hpr.active THEN "true"
    ELSE IF from = Zero THEN "true"
    ELSE IF to = Zero THEN "true"
    ELSE IF from \in hpr.exemptAddresses THEN "true"
    ELSE HasHoldingPeriodPassed(from)

-----------------------------------------------------------------------------
(* TransferLimitRule.  TokenUnit stands for the 10 ** 18 divisor.            *)

TokenUnit == 2

CheckLimits(account, amount) ==
    IF account \in tlr.exemptAddresses THEN "true"
    ELSE IF BalanceOf(account) + amount > MaxUint THEN "revert"
    ELSE LET newBalance == BalanceOf(account) + amount
             applicableLimit == IF tlr.hasCustomLimit[account]
                                THEN tlr.customMaxTokens[account]
                                ELSE tlr.maxTokensPerInvestor
         IN IF tlr.maxTokensPerInvestor > 0 /\ newBalance > applicableLimit
            THEN "false"
            ELSE IF tlr.maxInvestmentAmount > 0 /\ tlr.tokenPriceUSDCents > 0
                 THEN IF amount * tlr.tokenPriceUSDCents > MaxUint THEN "revert"
                      ELSE LET additionalInvestmentUSD ==
                                   (amount * tlr.tokenPriceUSDCents) \div TokenUnit
                           IN IF tlr.totalInvestmentUSD[account]
                                    + additionalInvestmentUSD > MaxUint
                              THEN "revert"
                              ELSE B(~(tlr.totalInvestmentUSD[account]
                                         + additionalInvestmentUSD
                                       > tlr.maxInvestmentAmount))
                 ELSE "true"

TLRCanTransfer(from, to, amount) ==
    IF ~tlr.active THEN "true"
    ELSE IF from = Zero THEN CheckLimits(to, amount)
    ELSE IF to = Zero THEN "true"
    ELSE CheckLimits(to, amount)

-----------------------------------------------------------------------------
(* ComplianceModule *)

(* IComplianceRule(ruleAddress).canTransfer(from, to, amount) *)
RuleCanTransfer(rule, from, to, amount) ==
    CASE rule = RuleILR -> ILRCanTransfer(from, to, amount)
      [] rule = RuleGEO -> GEOCanTransfer(from, to, amount)
      [] rule = RuleACC -> ACCCanTransfer(from, to, amount)
      [] rule = RuleHPR -> HPRCanTransfer(from, to, amount)
      [] rule = RuleTLR -> TLRCanTransfer(from, to, amount)

(* IComplianceRule(ruleAddress).isActive() *)
RuleIsActive(rule) ==
    CASE rule = RuleILR -> ilr.active
      [] rule = RuleGEO -> geo.active
      [] rule = RuleACC -> acc.active
      [] rule = RuleHPR -> hpr.active
      [] rule = RuleTLR -> tlr.active

(* The loop of canTransfer over _rules.at(i - 1), i = 1 .. ruleCount. *)
RECURSIVE CanTransferLoop(_, _, _, _, _)
CanTransferLoop(rules, i, from, to, amount) ==
    IF i > Len(rules) THEN "true"
    ELSE LET res == RuleCanTransfer(rules[i], from, to, amount)
         IN IF res = "true"
            THEN CanTransferLoop(rules, i + 1, from, to, amount)
            ELSE res

(* A variant that consults the first rule only. *)
CanTransferFirstRuleOnly(rules, from, to, amount) ==
    IF Len(rules) = 0 THEN "true"
    ELSE RuleCanTransfer(rules[1], from, to, amount)

CanTransferOver(rules, from, to, amount) ==
    CanTransferLoop(rules, 1, from, to, amount)

(* A variant that refuses a party whose cached status says non-compliant. *)
ComplianceCanTransferCached(from, to, amount) ==
    IF \E a \in {from, to} :
          /\ compliance.complianceStatus[a].lastUpdate # 0
          /\ ~compliance.complianceStatus[a].isCompliant
    THEN "false"
    ELSE CanTransferOver(compliance.rules, from, to, amount)

ComplianceCanTransfer(from, to, amount) ==
    CanTransferOver(compliance.rules, from, to, amount)

GetComplianceStatus(account) ==
    LET accountStatus == compliance.complianceStatus[account]
    IN IF accountStatus.lastUpdate = 0
       THEN [isCompliant |-> TRUE, status |-> "No compliance issues",
             lastUpdate |-> now]
       ELSE accountStatus

HasRule(rule) == SetContains(compliance.rules, rule)

GetRuleCount == Len(compliance.rules)

-----------------------------------------------------------------------------
(* RWAToken *)

(* A variant of isVerified that consults no registry. *)
TokenIsVerifiedAlways(account) == TRUE

TokenIsVerified(account) ==
    IF ~token.identityRegistry THEN TRUE ELSE RegistryIsVerified(account)

(* A variant of canTransfer without the identity check. *)
TokenCanTransferNoIdentity(from, to, amount) ==
    IF ~token.transfersEnabled THEN "false"
    ELSE IF token.paused THEN "false"
    ELSE IF from = Zero \/ to = Zero THEN "false"
    ELSE IF amount = 0 THEN "false"
    ELSE IF token.compliance THEN ComplianceCanTransfer(from, to, amount)
    ELSE "true"

TokenCanTransfer(from, to, amount) ==
    IF ~token.transfersEnabled THEN "false"
    ELSE IF token.paused THEN "false"
    ELSE IF from = Zero \/ to = Zero THEN "false"
    ELSE IF amount = 0 THEN "false"
    ELSE IF token.identityRegistry
            /\ (~RegistryIsVerified(from) \/ ~RegistryIsVerified(to))
         THEN "false"
    ELSE IF token.compliance THEN ComplianceCanTransfer(from, to, amount)
    ELSE "true"

(* A variant of _update without whenNotPaused. *)
UpdateAllowedWhilePaused(from, to, amount) ==
    /\ (from # Zero /\ to # Zero) => TokenCanTransfer(from, to, amount) = "true"
    /\ IF from = Zero
       THEN token.totalSupply + amount <= MaxUint
       ELSE token.balances[from] >= amount

(* ERC20._update as overridden: whenNotPaused, the compliance check for a    *)
(* regular transfer, then the balance and supply arithmetic of the base.     *)
UpdateAllowed(from, to, amount) ==
    /\ ~token.paused
    /\ (from # Zero /\ to # Zero) => TokenCanTransfer(from, to, amount) = "true"
    /\ IF from = Zero
       THEN token.totalSupply + amount <= MaxUint
       ELSE token.balances[from] >= amount

UpdateResult(from, to, amount) ==
    LET bal1 == IF from = Zero THEN token.balances
                ELSE [token.balances EXCEPT ![from] = @ - amount]
        sup1 == IF from = Zero THEN token.totalSupply + amount
                ELSE token.totalSupply
        bal2 == IF to = Zero THEN bal1 ELSE [bal1 EXCEPT ![to] = @ + amount]
        sup2 == IF to = Zero THEN sup1 - amount ELSE sup1
    IN [token EXCEPT !.balances = bal2, !.totalSupply = sup2]

(* A variant of mint without onlyOwner. *)
MintAllowedAnySender(sender, to, amount) ==
    /\ TokenIsVerified(to)
    /\ token.totalSupply + amount <= MaxUint
    /\ token.totalSupply + amount <= token.maxSupply
    /\ to # Zero
    /\ UpdateAllowed(Zero, to, amount)

(* A variant of mint without the maxSupply requirement. *)
MintAllowedNoCap(sender, to, amount) ==
    /\ sender = token.owner
    /\ TokenIsVerified(to)
    /\ token.totalSupply + amount <= MaxUint
    /\ to # Zero
    /\ UpdateAllowed(Zero, to, amount)

MintAllowed(sender, to, amount) ==
    /\ sender = token.owner
    /\ TokenIsVerified(to)
    /\ token.totalSupply + amount <= MaxUint
    /\ token.totalSupply + amount <= token.maxSupply
    /\ to # Zero
    /\ UpdateAllowed(Zero, to, amount)

MintResult(to, amount) == UpdateResult(Zero, to, amount)

BurnAllowed(sender, from, amount) ==
    /\ sender = token.owner
    /\ from # Zero
    /\ UpdateAllowed(from, Zero, amount)

BurnResult(from, amount) == UpdateResult(from, Zero, amount)

TransferAllowed(sender, to, amount) ==
    /\ TokenCanTransfer(sender, to, amount) = "true"
    /\ sender # Zero
    /\ to # Zero
    /\ UpdateAllowed(sender, to, amount)

TransferResult(sender, to, amount) == UpdateResult(sender, to, amount)

TransferFromAllowed(sender, from, to, amount) ==
    /\ TokenCanTransfer(from, to, amount) = "true"
    /\ token.allowances[<<from, sender>>] >= amount
    /\ from # Zero
    /\ to # Zero
    /\ UpdateAllowed(from, to, amount)

TransferFromResult(sender, from, to, amount) ==
    LET spent == IF token.allowances[<<from, sender>>] = MaxUint
                 THEN token.allowances
                 ELSE [token.allowances EXCEPT ![<<from, sender>>] = @ - amount]
        moved == UpdateResult(from, to, amount)
    IN [moved EXCEPT !.allowances = spent]

-----------------------------------------------------------------------------
(* State after deployment: every contract constructed by Admin, the token   *)
(* wired to its compliance module and identity registry.                    *)

TokenAddress == "token"

TokenInit ==
    [balances |-> [a \in Addresses |-> 0],
     totalSupply |-> 0,
     allowances |-> [p \in Accounts \X Accounts |-> 0],
     paused |-> FALSE,
     transfersEnabled |-> FALSE,
     compliance |-> TRUE,
     identityRegistry |-> TRUE,
     maxSupply |-> MaxSupply,
     owner |-> Admin]

(* defaultExpirationPeriod = 365 days on the clock of the model, whose unit *)
(* is half a year.                                                          *)
DefaultExpirationPeriod == 2

(* The factory after its constructor: the fee it charges, the token each     *)
(* deployment record holds (the zero address where there is no record), and *)
(* the set of deployed tokens.                                               *)
FactoryAddress == "factory"

FactoryInit ==
    [deploymentFee |-> 1,
     deployedTokens |-> {},
     tokenDeployments |->
         [a \in Addresses \cup {Admin, TokenAddress} |-> Zero],
     owner |-> Admin]

RegistryInit ==
    [identities |-> [a \in Addresses |-> NoIdentity],
     verifiedAddresses |-> <<>>,
     authorizedAgents |-> {Admin},
     defaultExpirationPeriod |-> DefaultExpirationPeriod,
     owner |-> Admin]

(* The zero value of a ComplianceStatus entry. *)
NoStatus == [isCompliant |-> FALSE, status |-> "", lastUpdate |-> 0]

ComplianceInit(rules) ==
    [rules |-> rules,
     complianceStatus |-> [a \in Addresses |-> NoStatus],
     token |-> TokenAddress,
     owner |-> Admin]

ILRInit(maxInvestors) ==
    [maxInvestors |-> maxInvestors,
     token |-> TokenAddress,
     currentInvestorCount |-> 0,
     isInvestor |-> [a \in Addresses |-> FALSE],
     active |-> TRUE,
     owner |-> Admin]

GEOInit(isAllowlistMode) ==
    [active |-> TRUE,
     isAllowlistMode |-> isAllowlistMode,
     jurisdictionStatus |-> {},
     owner |-> Admin]

ACCInit ==
    [active |-> TRUE,
     minimumLevel |-> LevelAccredited,
     exemptAddresses |-> {},
     owner |-> Admin]

HPRInit(holdingPeriod) ==
    [token |-> TokenAddress,
     active |-> TRUE,
     holdingPeriod |-> holdingPeriod,
     acquisitionTimestamp |-> [a \in Addresses |-> 0],
     exemptAddresses |-> {},
     customHoldingPeriods |-> [a \in Addresses |-> 0],
     hasCustomHoldingPeriod |-> [a \in Addresses |-> FALSE],
     owner |-> Admin]

TLRInit(maxTokens, maxInvestment, price) ==
    [token |-> TokenAddress,
     active |-> TRUE,
     maxTokensPerInvestor |-> maxTokens,
     maxInvestmentAmount |-> maxInvestment,
     tokenPriceUSDCents |-> price,
     customMaxTokens |-> [a \in Addresses |-> 0],
     hasCustomLimit |-> [a \in Addresses |-> FALSE],
     totalInvestmentUSD |-> [a \in Addresses |-> 0],
     exemptAddresses |-> {},
     owner |-> Admin]

-----------------------------------------------------------------------------
(* RWAToken: operations *)

Mint(sender, to, amount) ==
    /\ MintAllowed(sender, to, amount)
    /\ token' = MintResult(to, amount)
    /\ UNCHANGED <<registry, compliance, ilr, geo, acc, hpr, tlr, now,
                   factory>>

Burn(sender, from, amount) ==
    /\ BurnAllowed(sender, from, amount)
    /\ token' = BurnResult(from, amount)
    /\ UNCHANGED <<registry, compliance, ilr, geo, acc, hpr, tlr, now,
                   factory>>

Transfer(sender, to, amount) ==
    /\ TransferAllowed(sender, to, amount)
    /\ token' = TransferResult(sender, to, amount)
    /\ UNCHANGED <<registry, compliance, ilr, geo, acc, hpr, tlr, now,
                   factory>>

TransferFrom(sender, from, to, amount) ==
    /\ TransferFromAllowed(sender, from, to, amount)
    /\ token' = TransferFromResult(sender, from, to, amount)
    /\ UNCHANGED <<registry, compliance, ilr, geo, acc, hpr, tlr, now,
                   factory>>

Approve(sender, spender, amount) ==
    /\ sender # Zero
    /\ spender # Zero
    /\ token' = [token EXCEPT !.allowances[<<sender, spender>>] = amount]
    /\ UNCHANGED <<registry, compliance, ilr, geo, acc, hpr, tlr, now,
                   factory>>

(* setCompliance: the token points at the compliance module afterwards. *)
SetCompliance(sender, compliance_) ==
    /\ sender = token.owner
    /\ compliance_ # Zero
    /\ token' = [token EXCEPT !.compliance = TRUE]
    /\ UNCHANGED <<registry, compliance, ilr, geo, acc, hpr, tlr, now,
                   factory>>

(* setIdentityRegistry: the token points at the registry afterwards. *)
SetIdentityRegistry(sender, identityRegistry_) ==
    /\ sender = token.owner
    /\ identityRegistry_ # Zero
    /\ token' = [token EXCEPT !.identityRegistry = TRUE]
    /\ UNCHANGED <<registry, compliance, ilr, geo, acc, hpr, tlr, now,
                   factory>>

SetTransfersEnabled(sender, enabled) ==
    /\ sender = token.owner
    /\ token' = [token EXCEPT !.transfersEnabled = enabled]
    /\ UNCHANGED <<registry, compliance, ilr, geo, acc, hpr, tlr, now,
                   factory>>

Pause(sender) ==
    /\ sender = token.owner
    /\ ~token.paused
    /\ token' = [token EXCEPT !.paused = TRUE]
    /\ UNCHANGED <<registry, compliance, ilr, geo, acc, hpr, tlr, now,
                   factory>>

Unpause(sender) ==
    /\ sender = token.owner
    /\ token.paused
    /\ token' = [token EXCEPT !.paused = FALSE]
    /\ UNCHANGED <<registry, compliance, ilr, geo, acc, hpr, tlr, now,
                   factory>>

-----------------------------------------------------------------------------
(* IdentityRegistry: operations *)

(* A variant that appends the account to the set whether or not it already *)
(* has a record.                                                            *)
OnboardedNoCheck(reg, account, level, jurisdiction, expirationDate) ==
    [reg EXCEPT
       !.verifiedAddresses = Append(@, account),
       !.identities[account] =
           [isVerified |-> TRUE, level |-> level,
            jurisdiction |-> jurisdiction,
            expirationDate |-> expirationDate]]

Onboarded(reg, account, level, jurisdiction, expirationDate) ==
    [reg EXCEPT
       !.verifiedAddresses =
           IF ~reg.identities[account].isVerified
           THEN SetAdd(@, account) ELSE @,
       !.identities[account] =
           [isVerified |-> TRUE, level |-> level,
            jurisdiction |-> jurisdiction,
            expirationDate |-> expirationDate]]

(* A variant of the requirements that admits an expiry at the current time. *)
AddVerifiedAddressAllowedAtNow(sender, account, level, expirationDate) ==
    /\ OnlyAuthorized(sender)
    /\ account # Zero
    /\ level # LevelNone
    /\ expirationDate >= now

(* onlyAuthorized and the three requirements of addVerifiedAddress. *)
AddVerifiedAddressAllowed(sender, account, level, expirationDate) ==
    /\ OnlyAuthorized(sender)
    /\ account # Zero
    /\ level # LevelNone
    /\ expirationDate > now

AddVerifiedAddress(sender, account, level, jurisdiction, expirationDate) ==
    /\ AddVerifiedAddressAllowed(sender, account, level, expirationDate)
    /\ registry' = Onboarded(registry, account, level, jurisdiction,
                             expirationDate)
    /\ UNCHANGED <<token, compliance, ilr, geo, acc, hpr, tlr, now, factory>>

RemoveVerificationAllowed(sender, account) ==
    /\ OnlyAuthorized(sender)
    /\ registry.identities[account].isVerified

RemoveVerification(sender, account) ==
    /\ RemoveVerificationAllowed(sender, account)
    /\ registry' =
         [registry EXCEPT
            !.identities[account] = NoIdentity,
            !.verifiedAddresses = SetRemove(@, account)]
    /\ UNCHANGED <<token, compliance, ilr, geo, acc, hpr, tlr, now, factory>>

UpdateVerificationLevelAllowed(sender, account, level) ==
    /\ OnlyAuthorized(sender)
    /\ registry.identities[account].isVerified
    /\ level # LevelNone

UpdateVerificationLevel(sender, account, level) ==
    /\ UpdateVerificationLevelAllowed(sender, account, level)
    /\ registry' = [registry EXCEPT !.identities[account].level = level]
    /\ UNCHANGED <<token, compliance, ilr, geo, acc, hpr, tlr, now, factory>>

(* The loop of cleanupExpiredVerifications over accounts[i..]. *)
RECURSIVE CleanupLoop(_, _, _)
CleanupLoop(reg, accounts, i) ==
    IF i > Len(accounts) THEN reg
    ELSE LET identity == reg.identities[accounts[i]]
             reg1 == IF identity.isVerified /\ IsExpired(identity.expirationDate)
                     THEN [reg EXCEPT
                             !.identities[accounts[i]] = NoIdentity,
                             !.verifiedAddresses = SetRemove(@, accounts[i])]
                     ELSE reg
         IN CleanupLoop(reg1, accounts, i + 1)

CleanupExpiredVerifications(sender, accounts) ==
    /\ registry' = CleanupLoop(registry, accounts, 1)
    /\ UNCHANGED <<token, compliance, ilr, geo, acc, hpr, tlr, now, factory>>

AddAuthorizedAgent(sender, agent) ==
    /\ sender = registry.owner
    /\ agent # Zero
    /\ registry' = [registry EXCEPT !.authorizedAgents = @ \cup {agent}]
    /\ UNCHANGED <<token, compliance, ilr, geo, acc, hpr, tlr, now, factory>>

RemoveAuthorizedAgent(sender, agent) ==
    /\ sender = registry.owner
    /\ registry' = [registry EXCEPT !.authorizedAgents = @ \ {agent}]
    /\ UNCHANGED <<token, compliance, ilr, geo, acc, hpr, tlr, now, factory>>

(* Ownable.transferOwnership of the registry: onlyOwner, a non-zero owner. *)
RegistryTransferOwnership(sender, newOwner) ==
    /\ sender = registry.owner
    /\ newOwner # Zero
    /\ registry' = [registry EXCEPT !.owner = newOwner]
    /\ UNCHANGED <<token, compliance, ilr, geo, acc, hpr, tlr, now, factory>>

GetVerifiedAddressCount == Len(registry.verifiedAddresses)

(* getVerifiedAddresses(offset, limit): the page, or a revert when offset + *)
(* limit overflows.                                                         *)
GetVerifiedAddresses(offset, limit) ==
    LET total == Len(registry.verifiedAddresses)
        end == IF offset + limit > total THEN total ELSE offset + limit
    IN IF offset >= total THEN [reverts |-> FALSE, result |-> <<>>]
       ELSE IF offset + limit > MaxUint THEN [reverts |-> TRUE, result |-> <<>>]
       ELSE [reverts |-> FALSE,
             result |-> SubSeq(registry.verifiedAddresses, offset + 1, end)]

SetDefaultExpirationPeriod(sender, period) ==
    /\ sender = registry.owner
    /\ period > 0
    /\ registry' = [registry EXCEPT !.defaultExpirationPeriod = period]
    /\ UNCHANGED <<token, compliance, ilr, geo, acc, hpr, tlr, now, factory>>

(* The loop of batchVerifyAddresses over accounts[i..]; the requirements on *)
(* the elements are those of BatchVerifyAllowed.                            *)
RECURSIVE BatchVerifyLoop(_, _, _, _, _, _)
BatchVerifyLoop(reg, accounts, levels, jurisdictions, expirationDate, i) ==
    IF i > Len(accounts) THEN reg
    ELSE BatchVerifyLoop(
            Onboarded(reg, accounts[i], levels[i], jurisdictions[i],
                      expirationDate),
            accounts, levels, jurisdictions, expirationDate, i + 1)

(* A variant that checks the caller, the lengths and the addition only. *)
BatchVerifyAllowedAnyElement(sender, accounts, levels, places, hashes) ==
    /\ OnlyAuthorized(sender)
    /\ Len(accounts) = Len(levels)
    /\ Len(accounts) = Len(places)
    /\ Len(accounts) = Len(hashes)
    /\ now + registry.defaultExpirationPeriod <= MaxUint

(* batchVerifyAddresses completes: onlyAuthorized, equal lengths, no        *)
(* overflow in block.timestamp + defaultExpirationPeriod, and no element    *)
(* with the zero address or the level None.                                 *)
BatchVerifyAllowed(sender, accounts, levels, jurisdictions, identityHashes) ==
    /\ OnlyAuthorized(sender)
    /\ Len(accounts) = Len(levels)
    /\ Len(accounts) = Len(jurisdictions)
    /\ Len(accounts) = Len(identityHashes)
    /\ now + registry.defaultExpirationPeriod <= MaxUint
    /\ \A i \in 1..Len(accounts) :
          accounts[i] # Zero /\ levels[i] # LevelNone

BatchVerifyResult(accounts, levels, jurisdictions) ==
    BatchVerifyLoop(registry, accounts, levels, jurisdictions,
                    now + registry.defaultExpirationPeriod, 1)

BatchVerifyAddresses(sender, accounts, levels, jurisdictions, identityHashes) ==
    /\ BatchVerifyAllowed(sender, accounts, levels, jurisdictions,
                          identityHashes)
    /\ registry' = BatchVerifyResult(accounts, levels, jurisdictions)
    /\ UNCHANGED <<token, compliance, ilr, geo, acc, hpr, tlr, now, factory>>

-----------------------------------------------------------------------------
(* ComplianceModule: operations *)

(* A variant of addRule that accepts a rule whatever the set holds. *)
AddRuleAllowedAnyRule(sender, rule) ==
    /\ sender = compliance.owner
    /\ rule # Zero

(* The requirements of addRule: onlyOwner, a non-zero rule, and            *)
(* _rules.add(rule) returning true, which it does when rule is not held.    *)
AddRuleAllowed(sender, rule) ==
    /\ sender = compliance.owner
    /\ rule # Zero
    /\ ~SetContains(compliance.rules, rule)

AddRule(sender, rule) ==
    /\ AddRuleAllowed(sender, rule)
    /\ Len(compliance.rules) < MaxRules
    /\ compliance' = [compliance EXCEPT !.rules = SetAdd(@, rule)]
    /\ UNCHANGED <<token, registry, ilr, geo, acc, hpr, tlr, now, factory>>

(* The requirements of removeRule: onlyOwner and _rules.remove(rule)       *)
(* returning true, which it does when rule is held.                         *)
RemoveRuleAllowed(sender, rule) ==
    /\ sender = compliance.owner
    /\ SetContains(compliance.rules, rule)

RemoveRule(sender, rule) ==
    /\ RemoveRuleAllowed(sender, rule)
    /\ compliance' = [compliance EXCEPT !.rules = SetRemove(@, rule)]
    /\ UNCHANGED <<token, registry, ilr, geo, acc, hpr, tlr, now, factory>>

(* The loop of resetRules: _rules.remove(rules[i]) over the copy rules of   *)
(* _rules.values() taken before the loop.                                   *)
RECURSIVE ResetLoop(_, _, _)
ResetLoop(set, rules, i) ==
    IF i > Len(rules) THEN set
    ELSE ResetLoop(SetRemove(set, rules[i]), rules, i + 1)

ResetRules(sender) ==
    /\ sender = compliance.owner
    /\ compliance' =
         [compliance EXCEPT !.rules = ResetLoop(@, compliance.rules, 1)]
    /\ UNCHANGED <<token, registry, ilr, geo, acc, hpr, tlr, now, factory>>

OnlyTokenOrOwner(sender) ==
    sender = compliance.token \/ sender = compliance.owner

UpdateComplianceStatusResult(cm, account, isCompliant, status) ==
    [cm EXCEPT !.complianceStatus[account] =
        [isCompliant |-> isCompliant, status |-> status, lastUpdate |-> now]]

UpdateComplianceStatus(sender, account, isCompliant, status) ==
    /\ OnlyTokenOrOwner(sender)
    /\ compliance' =
         UpdateComplianceStatusResult(compliance, account, isCompliant, status)
    /\ UNCHANGED <<token, registry, ilr, geo, acc, hpr, tlr, now, factory>>

(* The loop of batchUpdateComplianceStatus over accounts[i..]. *)
RECURSIVE BatchUpdateLoop(_, _, _, _, _)
BatchUpdateLoop(cm, accounts, isCompliant, statuses, i) ==
    IF i > Len(accounts) THEN cm
    ELSE BatchUpdateLoop(
            UpdateComplianceStatusResult(cm, accounts[i], isCompliant[i],
                                         statuses[i]),
            accounts, isCompliant, statuses, i + 1)

BatchUpdateAllowed(sender, accounts, isCompliant, statuses) ==
    /\ OnlyTokenOrOwner(sender)
    /\ Len(accounts) = Len(isCompliant)
    /\ Len(accounts) = Len(statuses)

BatchUpdateResult(accounts, isCompliant, statuses) ==
    BatchUpdateLoop(compliance, accounts, isCompliant, statuses, 1)

BatchUpdateComplianceStatus(sender, accounts, isCompliant, statuses) ==
    /\ BatchUpdateAllowed(sender, accounts, isCompliant, statuses)
    /\ compliance' = BatchUpdateResult(accounts, isCompliant, statuses)
    /\ UNCHANGED <<token, registry, ilr, geo, acc, hpr, tlr, now, factory>>

-----------------------------------------------------------------------------
(* InvestorLimitRule: operations *)

ILRUpdateInvestorCount(sender, from, to, amount) ==
    /\ sender = ilr.token
    /\ ~UpdateInvestorCountReverts(ilr, token.balances, from, to, amount)
    /\ ilr' = UpdateInvestorCount(ilr, token.balances, from, to, amount)
    /\ UNCHANGED <<token, registry, compliance, geo, acc, hpr, tlr, now,
                   factory>>

SetMaxInvestors(sender, maxInvestors) ==
    /\ sender = ilr.owner
    /\ maxInvestors > 0
    /\ ilr' = [ilr EXCEPT !.maxInvestors = maxInvestors]
    /\ UNCHANGED <<token, registry, compliance, geo, acc, hpr, tlr, now,
                   factory>>

ILRSetActive(sender, active) ==
    /\ sender = ilr.owner
    /\ ilr' = [ilr EXCEPT !.active = active]
    /\ UNCHANGED <<token, registry, compliance, geo, acc, hpr, tlr, now,
                   factory>>

InitializeInvestorCount(sender, investors) ==
    /\ sender = ilr.owner
    /\ ilr' = InitializeInvestorCountResult(investors)
    /\ UNCHANGED <<token, registry, compliance, geo, acc, hpr, tlr, now,
                   factory>>

-----------------------------------------------------------------------------
(* GeographicRule: operations.  jurisdictionStatus is held as the set of    *)
(* jurisdiction codes whose status is true.                                 *)

SetJurisdiction(sender, jurisdiction, status) ==
    /\ sender = geo.owner
    /\ geo' = [geo EXCEPT !.jurisdictionStatus =
                   IF status THEN @ \cup {jurisdiction} ELSE @ \ {jurisdiction}]
    /\ UNCHANGED <<token, registry, compliance, ilr, acc, hpr, tlr, now,
                   factory>>

SetMode(sender, isAllowlistMode) ==
    /\ sender = geo.owner
    /\ geo' = [geo EXCEPT !.isAllowlistMode = isAllowlistMode]
    /\ UNCHANGED <<token, registry, compliance, ilr, acc, hpr, tlr, now,
                   factory>>

GEOSetActive(sender, active) ==
    /\ sender = geo.owner
    /\ geo' = [geo EXCEPT !.active = active]
    /\ UNCHANGED <<token, registry, compliance, ilr, acc, hpr, tlr, now,
                   factory>>

-----------------------------------------------------------------------------
(* AccreditedInvestorRule: operations *)

SetMinimumLevel(sender, level) ==
    /\ sender = acc.owner
    /\ level # LevelNone
    /\ acc' = [acc EXCEPT !.minimumLevel = level]
    /\ UNCHANGED <<token, registry, compliance, ilr, geo, hpr, tlr, now,
                   factory>>

ACCSetExemption(sender, account, exempt) ==
    /\ sender = acc.owner
    /\ account # Zero
    /\ acc' = [acc EXCEPT !.exemptAddresses =
                   IF exempt THEN @ \cup {account} ELSE @ \ {account}]
    /\ UNCHANGED <<token, registry, compliance, ilr, geo, hpr, tlr, now,
                   factory>>

ACCSetActive(sender, active) ==
    /\ sender = acc.owner
    /\ acc' = [acc EXCEPT !.active = active]
    /\ UNCHANGED <<token, registry, compliance, ilr, geo, hpr, tlr, now,
                   factory>>

-----------------------------------------------------------------------------
(* HoldingPeriodRule: operations *)

RecordedTime(timestamp) == IF timestamp = 0 THEN now ELSE timestamp

RecordAcquisition(sender, account, timestamp) ==
    /\ sender = hpr.token \/ sender = hpr.owner
    /\ hpr' = [hpr EXCEPT !.acquisitionTimestamp[account] = RecordedTime(timestamp)]
    /\ UNCHANGED <<token, registry, compliance, ilr, geo, acc, tlr, now,
                   factory>>

RECURSIVE BatchRecordLoop(_, _, _, _)
BatchRecordLoop(h, accounts, timestamps, i) ==
    IF i > Len(accounts) THEN h
    ELSE BatchRecordLoop(
             [h EXCEPT !.acquisitionTimestamp[accounts[i]] =
                           RecordedTime(timestamps[i])],
             accounts, timestamps, i + 1)

BatchRecordAcquisitions(sender, accounts, timestamps) ==
    /\ sender = hpr.owner
    /\ Len(accounts) = Len(timestamps)
    /\ hpr' = BatchRecordLoop(hpr, accounts, timestamps, 1)
    /\ UNCHANGED <<token, registry, compliance, ilr, geo, acc, tlr, now,
                   factory>>

SetHoldingPeriod(sender, holdingPeriod) ==
    /\ sender = hpr.owner
    /\ holdingPeriod > 0
    /\ hpr' = [hpr EXCEPT !.holdingPeriod = holdingPeriod]
    /\ UNCHANGED <<token, registry, compliance, ilr, geo, acc, tlr, now,
                   factory>>

SetCustomHoldingPeriod(sender, account, period) ==
    /\ sender = hpr.owner
    /\ hpr' = IF period = 0
              THEN [hpr EXCEPT !.hasCustomHoldingPeriod[account] = FALSE,
                               !.customHoldingPeriods[account] = 0]
              ELSE [hpr EXCEPT !.hasCustomHoldingPeriod[account] = TRUE,
                               !.customHoldingPeriods[account] = period]
    /\ UNCHANGED <<token, registry, compliance, ilr, geo, acc, tlr, now,
                   factory>>

HPRSetExemption(sender, account, exempt) ==
    /\ sender = hpr.owner
    /\ account # Zero
    /\ hpr' = [hpr EXCEPT !.exemptAddresses =
                   IF exempt THEN @ \cup {account} ELSE @ \ {account}]
    /\ UNCHANGED <<token, registry, compliance, ilr, geo, acc, tlr, now,
                   factory>>

HPRSetActive(sender, active) ==
    /\ sender = hpr.owner
    /\ hpr' = [hpr EXCEPT !.active = active]
    /\ UNCHANGED <<token, registry, compliance, ilr, geo, acc, tlr, now,
                   factory>>

-----------------------------------------------------------------------------
(* TransferLimitRule: operations *)

RecordInvestmentReverts(r, account, tokenAmount) ==
    /\ r.tokenPriceUSDCents > 0
    /\ \/ tokenAmount * r.tokenPriceUSDCents > MaxUint
       \/ r.totalInvestmentUSD[account]
            + (tokenAmount * r.tokenPriceUSDCents) \div TokenUnit > MaxUint

RecordInvestmentResult(r, account, tokenAmount) ==
    IF r.tokenPriceUSDCents > 0
    THEN [r EXCEPT !.totalInvestmentUSD[account] =
              @ + (tokenAmount * r.tokenPriceUSDCents) \div TokenUnit]
    ELSE r

RecordInvestment(sender, account, tokenAmount) ==
    /\ sender = tlr.token \/ sender = tlr.owner
    /\ ~RecordInvestmentReverts(tlr, account, tokenAmount)
    /\ tlr' = RecordInvestmentResult(tlr, account, tokenAmount)
    /\ UNCHANGED <<token, registry, compliance, ilr, geo, acc, hpr, now,
                   factory>>

SetMaxTokensPerInvestor(sender, limit) ==
    /\ sender = tlr.owner
    /\ tlr' = [tlr EXCEPT !.maxTokensPerInvestor = limit]
    /\ UNCHANGED <<token, registry, compliance, ilr, geo, acc, hpr, now,
                   factory>>

SetMaxInvestmentAmount(sender, limit) ==
    /\ sender = tlr.owner
    /\ tlr' = [tlr EXCEPT !.maxInvestmentAmount = limit]
    /\ UNCHANGED <<token, registry, compliance, ilr, geo, acc, hpr, now,
                   factory>>

SetTokenPrice(sender, priceUSDCents) ==
    /\ sender = tlr.owner
    /\ tlr' = [tlr EXCEPT !.tokenPriceUSDCents = priceUSDCents]
    /\ UNCHANGED <<token, registry, compliance, ilr, geo, acc, hpr, now,
                   factory>>

SetCustomLimit(sender, account, limit) ==
    /\ sender = tlr.owner
    /\ tlr' = IF limit = 0
              THEN [tlr EXCEPT !.hasCustomLimit[account] = FALSE,
                               !.customMaxTokens[account] = 0]
              ELSE [tlr EXCEPT !.hasCustomLimit[account] = TRUE,
                               !.customMaxTokens[account] = limit]
    /\ UNCHANGED <<token, registry, compliance, ilr, geo, acc, hpr, now,
                   factory>>

TLRSetExemption(sender, account, exempt) ==
    /\ sender = tlr.owner
    /\ account # Zero
    /\ tlr' = [tlr EXCEPT !.exemptAddresses =
                   IF exempt THEN @ \cup {account} ELSE @ \ {account}]
    /\ UNCHANGED <<token, registry, compliance, ilr, geo, acc, hpr, now,
                   factory>>

TLRSetActive(sender, active) ==
    /\ sender = tlr.owner
    /\ tlr' = [tlr EXCEPT !.active = active]
    /\ UNCHANGED <<token, registry, compliance, ilr, geo, acc, hpr, now,
                   factory>>

-----------------------------------------------------------------------------
(* block.timestamp advances between transactions. *)

Tick ==
    /\ now < MaxTime
    /\ now' = now + 1
    /\ UNCHANGED <<token, registry, compliance, ilr, geo, acc, hpr, tlr,
                   factory>>

-----------------------------------------------------------------------------
(* The deployed ledger: the token with its registry and a compliance module *)
(* holding the InvestorLimitRule.                                           *)

ListsOver(S) == {<<>>} \cup {<<a>> : a \in S} \cup {<<a, b>> : a \in S, b \in S}

ApprovePairs == {<<"A", "C">>}
FarFuture == MaxUint

(* The registry after onboarding: every account of Onboarded verified by    *)
(* addVerifiedAddress(account, level, jurisdiction, FarFuture, hash).       *)
RegistryWith(onboarded, level, jurisdiction) ==
    [RegistryInit EXCEPT
       !.identities =
           [a \in Addresses |->
              IF SetContains(onboarded, a)
              THEN [isVerified |-> TRUE, level |-> level,
                    jurisdiction |-> jurisdiction, expirationDate |-> FarFuture]
              ELSE NoIdentity],
       !.verifiedAddresses = onboarded]

Init ==
    /\ token = TokenInit
    /\ registry = RegistryWith(<<"A", "B", "C">>, LevelBasic, "US")
    /\ compliance = ComplianceInit(<<RuleILR>>)
    /\ \E n \in 1..MaxInvestorsBound : ilr = ILRInit(n)
    /\ geo = GEOInit(FALSE)
    /\ acc = ACCInit
    /\ hpr = HPRInit(1)
    /\ tlr = TLRInit(MaxSupply, 0, 0)
    /\ now = 1
    /\ factory = FactoryInit

Next ==
    \/ \E s \in Callers, to \in Addresses, amount \in 0..MaxSupply :
          Mint(s, to, amount)
    \/ \E s \in Callers, from \in Addresses, amount \in 0..MaxSupply :
          Burn(s, from, amount)
    \/ \E s \in Accounts, to \in Addresses, amount \in 0..MaxSupply :
          Transfer(s, to, amount)
    \/ \E s \in Accounts, from \in Accounts, to \in Addresses,
          amount \in 0..MaxSupply : TransferFrom(s, from, to, amount)
    \/ \E p \in ApprovePairs, amount \in 0..MaxSupply :
          Approve(p[1], p[2], amount)
    \/ \E s \in Callers, enabled \in BOOLEAN : SetTransfersEnabled(s, enabled)
    \/ \E s \in Callers : Pause(s)
    \/ \E s \in Callers : Unpause(s)
    \/ \E s \in Callers, l \in ListsOver(Accounts) :
          InitializeInvestorCount(s, l)

Spec == Init /\ [][Next]_vars

-----------------------------------------------------------------------------
(* A ledger that invokes updateInvestorCount(from, to, amount) in the same  *)
(* transaction, after the balance change of every successful mint, burn and *)
(* transfer; the transaction aborts as a whole when the hook aborts.        *)

HookAfter(tok, from, to, amount) ==
    /\ ~UpdateInvestorCountReverts(ilr, tok.balances, from, to, amount)
    /\ token' = tok
    /\ ilr' = UpdateInvestorCount(ilr, tok.balances, from, to, amount)

MintHooked(sender, to, amount) ==
    /\ MintAllowed(sender, to, amount)
    /\ HookAfter(MintResult(to, amount), Zero, to, amount)
    /\ UNCHANGED <<registry, compliance, geo, acc, hpr, tlr, now, factory>>

BurnHooked(sender, from, amount) ==
    /\ BurnAllowed(sender, from, amount)
    /\ HookAfter(BurnResult(from, amount), from, Zero, amount)
    /\ UNCHANGED <<registry, compliance, geo, acc, hpr, tlr, now, factory>>

TransferHooked(sender, to, amount) ==
    /\ TransferAllowed(sender, to, amount)
    /\ HookAfter(TransferResult(sender, to, amount), sender, to, amount)
    /\ UNCHANGED <<registry, compliance, geo, acc, hpr, tlr, now, factory>>

TransferFromHooked(sender, from, to, amount) ==
    /\ TransferFromAllowed(sender, from, to, amount)
    /\ HookAfter(TransferFromResult(sender, from, to, amount), from, to, amount)
    /\ UNCHANGED <<registry, compliance, geo, acc, hpr, tlr, now, factory>>

NextHooked ==
    \/ \E s \in Callers, to \in Addresses, amount \in 0..MaxSupply :
          MintHooked(s, to, amount)
    \/ \E s \in Callers, from \in Addresses, amount \in 0..MaxSupply :
          BurnHooked(s, from, amount)
    \/ \E s \in Accounts, to \in Addresses, amount \in 0..MaxSupply :
          TransferHooked(s, to, amount)
    \/ \E s \in Accounts, from \in Accounts, to \in Addresses,
          amount \in 0..MaxSupply : TransferFromHooked(s, from, to, amount)
    \/ \E p \in ApprovePairs, amount \in 0..MaxSupply :
          Approve(p[1], p[2], amount)
    \/ \E s \in Callers, enabled \in BOOLEAN : SetTransfersEnabled(s, enabled)

SpecHooked == Init /\ [][NextHooked]_vars

(* The InvestorLimitRule of the deployed ledger under the owner's          *)
(* operations on it, with the mints and burns that change balances.         *)
NextILR ==
    \/ \E s \in Callers, to \in Addresses, amount \in 0..MaxSupply :
          Mint(s, to, amount)
    \/ \E s \in Callers, from \in Addresses, amount \in 0..MaxSupply :
          Burn(s, from, amount)
    \/ \E s \in Callers, l \in ListsOver(Accounts) :
          InitializeInvestorCount(s, l)
    \/ \E s \in Callers, active \in BOOLEAN : ILRSetActive(s, active)
    \/ \E s \in Callers, n \in 0..MaxInvestorsBound : SetMaxInvestors(s, n)

SpecILR == Init /\ [][NextILR]_vars

-----------------------------------------------------------------------------
(* The compliance module over the five rule contracts.  The rules start in  *)
(* the state left by: addVerifiedAddress(A, Accredited, "US") and           *)
(* addVerifiedAddress(B, Basic, "KP") on the registry, mint(A, 2),          *)
(* initializeInvestorCount([A]) on an InvestorLimitRule of one investor,    *)
(* recordAcquisition(A, 1) and recordAcquisition(C, MaxUint) on the         *)
(* HoldingPeriodRule, a TransferLimitRule of two tokens per investor, and   *)
(* one tick of the clock.  C is not in the registry.                        *)

InitAgg ==
    /\ token = [TokenInit EXCEPT !.balances["A"] = 2, !.totalSupply = 2]
    /\ registry = Onboarded(Onboarded(RegistryInit, "A", LevelAccredited,
                                      "US", FarFuture),
                            "B", LevelBasic, "KP", FarFuture)
    /\ compliance = ComplianceInit(<<>>)
    /\ ilr = [ILRInit(1) EXCEPT !.currentInvestorCount = 1,
                                !.isInvestor["A"] = TRUE]
    /\ geo = GEOInit(FALSE)
    /\ acc = ACCInit
    /\ hpr = [HPRInit(1) EXCEPT !.acquisitionTimestamp["A"] = 1,
                                !.acquisitionTimestamp["C"] = MaxUint]
    /\ tlr = TLRInit(2, 0, 0)
    /\ now = 2
    /\ factory = FactoryInit

NextAgg ==
    \/ \E s \in Callers, r \in RuleKinds :
          /\ Len(compliance.rules) < MaxAggRules
          /\ AddRule(s, r)
    \/ \E s \in Callers, r \in RuleKinds : RemoveRule(s, r)
    \/ \E s \in Callers, active \in BOOLEAN : ILRSetActive(s, active)
    \/ \E s \in Callers, active \in BOOLEAN : GEOSetActive(s, active)
    \/ \E s \in Callers, active \in BOOLEAN : ACCSetActive(s, active)
    \/ \E s \in Callers, active \in BOOLEAN : HPRSetActive(s, active)
    \/ \E s \in Callers, active \in BOOLEAN : TLRSetActive(s, active)
    \/ \E s \in Callers, mode \in BOOLEAN : SetMode(s, mode)
    \/ \E s \in Callers, status \in BOOLEAN : SetJurisdiction(s, "KP", status)
    \/ \E s \in Callers, level \in Levels : SetMinimumLevel(s, level)

SpecAgg == InitAgg /\ [][NextAgg]_vars

-----------------------------------------------------------------------------
(* The HoldingPeriodRule under its owner's operations and the clock.        *)

HoldingAccounts == {"A", "B"}
Periods == {1, 2, MaxUint}

InitHolding ==
    /\ token = TokenInit
    /\ registry = RegistryWith(<<"A", "B", "C">>, LevelBasic, "US")
    /\ compliance = ComplianceInit(<<RuleHPR>>)
    /\ ilr = ILRInit(MaxInvestorsBound)
    /\ geo = GEOInit(FALSE)
    /\ acc = ACCInit
    /\ \E p \in Periods : hpr = HPRInit(p)
    /\ tlr = TLRInit(MaxSupply, 0, 0)
    /\ now = 1
    /\ factory = FactoryInit

NextHolding ==
    \/ \E s \in Callers, a \in HoldingAccounts, t \in 0..1 :
          RecordAcquisition(s, a, t)
    \/ \E s \in {Admin, "A"}, accounts \in ListsOver(HoldingAccounts),
          timestamps \in {<<>>, <<0>>, <<0, 1>>, <<1, 0>>} :
          BatchRecordAcquisitions(s, accounts, timestamps)
    \/ \E s \in Callers, p \in Periods \cup {0} : SetHoldingPeriod(s, p)
    \/ \E s \in Callers, a \in HoldingAccounts, p \in Periods \cup {0} :
          SetCustomHoldingPeriod(s, a, p)
    \/ \E s \in Callers, a \in HoldingAccounts, exempt \in BOOLEAN :
          HPRSetExemption(s, a, exempt)
    \/ \E s \in Callers, active \in BOOLEAN : HPRSetActive(s, active)
    \/ Tick

SpecHolding == InitHolding /\ [][NextHolding]_vars

-----------------------------------------------------------------------------
(* The IdentityRegistry under its agents' operations and the clock.         *)

RegAccounts == {"A", "B"}
ExpirationDates == 1..MaxTime

InitRegistry ==
    /\ token = TokenInit
    /\ registry = RegistryInit
    /\ compliance = ComplianceInit(<<>>)
    /\ ilr = ILRInit(MaxInvestorsBound)
    /\ geo = GEOInit(FALSE)
    /\ acc = ACCInit
    /\ hpr = HPRInit(1)
    /\ tlr = TLRInit(MaxSupply, 0, 0)
    /\ now = 1
    /\ factory = FactoryInit

NextRegistry ==
    \/ \E s \in Callers, a \in RegAccounts \cup {Zero}, l \in Levels,
          j \in Jurisdictions, e \in ExpirationDates :
          AddVerifiedAddress(s, a, l, j, e)
    \/ \E s \in Callers, a \in RegAccounts : RemoveVerification(s, a)
    \/ \E s \in Callers, a \in RegAccounts, l \in Levels :
          UpdateVerificationLevel(s, a, l)
    \/ \E s \in Callers, l \in ListsOver(RegAccounts) :
          CleanupExpiredVerifications(s, l)
    \/ Tick

SpecRegistry == InitRegistry /\ [][NextRegistry]_vars

-----------------------------------------------------------------------------
(* The GeographicRule over a registry whose records are added, removed and  *)
(* left to expire.                                                          *)

InitGeo ==
    /\ token = TokenInit
    /\ registry = RegistryInit
    /\ compliance = ComplianceInit(<<RuleGEO>>)
    /\ ilr = ILRInit(MaxInvestorsBound)
    /\ \E mode \in BOOLEAN : geo = GEOInit(mode)
    /\ acc = ACCInit
    /\ hpr = HPRInit(1)
    /\ tlr = TLRInit(MaxSupply, 0, 0)
    /\ now = 1
    /\ factory = FactoryInit

NextGeo ==
    \/ \E s \in Callers, a \in RegAccounts, j \in Jurisdictions,
          e \in ExpirationDates : AddVerifiedAddress(s, a, LevelBasic, j, e)
    \/ \E s \in Callers, a \in RegAccounts : RemoveVerification(s, a)
    \/ \E s \in Callers, j \in Jurisdictions, status \in BOOLEAN :
          SetJurisdiction(s, j, status)
    \/ \E s \in Callers, mode \in BOOLEAN : SetMode(s, mode)
    \/ \E s \in Callers, active \in BOOLEAN : GEOSetActive(s, active)
    \/ Tick

SpecGeo == InitGeo /\ [][NextGeo]_vars

-----------------------------------------------------------------------------
(* The AccreditedInvestorRule over a registry whose records are added,      *)
(* changed, removed and left to expire.                                     *)

InitAcc ==
    /\ token = TokenInit
    /\ registry = RegistryInit
    /\ compliance = ComplianceInit(<<RuleACC>>)
    /\ ilr = ILRInit(MaxInvestorsBound)
    /\ geo = GEOInit(FALSE)
    /\ acc = ACCInit
    /\ hpr = HPRInit(1)
    /\ tlr = TLRInit(MaxSupply, 0, 0)
    /\ now = 1
    /\ factory = FactoryInit

NextAcc ==
    \/ \E s \in Callers, a \in RegAccounts, l \in Levels,
          e \in ExpirationDates : AddVerifiedAddress(s, a, l, "US", e)
    \/ \E s \in Callers, a \in RegAccounts : RemoveVerification(s, a)
    \/ \E s \in Callers, a \in RegAccounts, l \in Levels :
          UpdateVerificationLevel(s, a, l)
    \/ \E s \in Callers, l \in Levels : SetMinimumLevel(s, l)
    \/ \E s \in Callers, a \in RegAccounts \cup {Zero}, exempt \in BOOLEAN :
          ACCSetExemption(s, a, exempt)
    \/ \E s \in Callers, active \in BOOLEAN : ACCSetActive(s, active)
    \/ Tick

SpecAcc == InitAcc /\ [][NextAcc]_vars

-----------------------------------------------------------------------------
(* The TransferLimitRule under its owner's operations, over a ledger on     *)
(* which B receives tokens.                                                 *)

TokenCaps == {0, 2, MaxUint}
InvestmentCaps == {0, 2, MaxUint}
Prices == {0, 1, 2}
Amounts == 0..MaxSupply \cup {MaxUint}

InitTlr ==
    /\ token = TokenInit
    /\ registry = RegistryWith(<<"A", "B", "C">>, LevelBasic, "US")
    /\ compliance = ComplianceInit(<<RuleTLR>>)
    /\ ilr = ILRInit(MaxInvestorsBound)
    /\ geo = GEOInit(FALSE)
    /\ acc = ACCInit
    /\ hpr = HPRInit(1)
    /\ \E t \in TokenCaps, i \in InvestmentCaps, p \in Prices :
          /\ t > 0 \/ i > 0
          /\ tlr = TLRInit(t, i, p)
    /\ now = 1
    /\ factory = FactoryInit

NextTlr ==
    \/ \E s \in Callers, amount \in 0..MaxSupply : Mint(s, "B", amount)
    \/ \E s \in Callers, amount \in 1..MaxSupply : RecordInvestment(s, "B", amount)
    \/ \E s \in Callers, t \in TokenCaps : SetMaxTokensPerInvestor(s, t)
    \/ \E s \in Callers, i \in InvestmentCaps : SetMaxInvestmentAmount(s, i)
    \/ \E s \in Callers, p \in Prices : SetTokenPrice(s, p)
    \/ \E s \in Callers, limit \in 0..1 : SetCustomLimit(s, "B", limit)
    \/ \E s \in Callers, a \in {"B", Zero}, exempt \in BOOLEAN :
          TLRSetExemption(s, a, exempt)
    \/ \E s \in Callers, active \in BOOLEAN : TLRSetActive(s, active)

SpecTlr == InitTlr /\ [][NextTlr]_vars

-----------------------------------------------------------------------------
(* A ledger on which every receipt of tokens is first passed by the         *)
(* compliance module, holding the TransferLimitRule with its USD cap, and   *)
(* is followed in the same transaction by recordInvestment(to, amount).     *)
(* Tokens are only ever minted, so an account's balance is all it received. *)

MintRecorded(sender, to, amount) ==
    /\ MintAllowed(sender, to, amount)
    /\ ComplianceCanTransfer(Zero, to, amount) = "true"
    /\ ~RecordInvestmentReverts(tlr, to, amount)
    /\ token' = MintResult(to, amount)
    /\ tlr' = RecordInvestmentResult(tlr, to, amount)
    /\ UNCHANGED <<registry, compliance, ilr, geo, acc, hpr, now, factory>>

InitInvest ==
    /\ token = TokenInit
    /\ registry = RegistryWith(<<"A", "B", "C">>, LevelBasic, "US")
    /\ compliance = ComplianceInit(<<RuleTLR>>)
    /\ ilr = ILRInit(MaxInvestorsBound)
    /\ geo = GEOInit(FALSE)
    /\ acc = ACCInit
    /\ hpr = HPRInit(1)
    /\ \E i \in 1..MaxSupply, p \in 1..MaxPrice : tlr = TLRInit(0, i, p)
    /\ now = 1
    /\ factory = FactoryInit

NextInvest ==
    \E s \in Callers, to \in Addresses, amount \in 0..MaxSupply :
       MintRecorded(s, to, amount)

SpecInvest == InitInvest /\ [][NextInvest]_vars

-----------------------------------------------------------------------------
(* The rule list of the ComplianceModule under addRule and removeRule; the  *)
(* InvestorLimitRule is switched on and off meanwhile.                      *)

InitRules ==
    /\ token = TokenInit
    /\ registry = RegistryWith(<<"A", "B", "C">>, LevelBasic, "US")
    /\ compliance = ComplianceInit(<<>>)
    /\ ilr = ILRInit(MaxInvestorsBound)
    /\ geo = GEOInit(FALSE)
    /\ acc = ACCInit
    /\ hpr = HPRInit(1)
    /\ tlr = TLRInit(MaxSupply, 0, 0)
    /\ now = 1
    /\ factory = FactoryInit

NextRules ==
    \/ \E s \in Callers, r \in RuleKinds \cup {Zero} : AddRule(s, r)
    \/ \E s \in Callers, r \in RuleKinds : RemoveRule(s, r)
    \/ \E s \in Callers, active \in BOOLEAN : ILRSetActive(s, active)

SpecRules == InitRules /\ [][NextRules]_vars

-----------------------------------------------------------------------------
(* The rule set of the ComplianceModule under every operation that writes   *)
(* it: addRule, removeRule and resetRules.                                  *)

NextRuleSet ==
    \/ \E s \in Callers, r \in RuleKinds \cup {Zero} : AddRule(s, r)
    \/ \E s \in Callers, r \in RuleKinds : RemoveRule(s, r)
    \/ \E s \in Callers : ResetRules(s)
    \/ \E s \in Callers, active \in BOOLEAN : ILRSetActive(s, active)

SpecRuleSet == InitRules /\ [][NextRuleSet]_vars

-----------------------------------------------------------------------------
(* The ledger with transfers enabled, a compliance module holding the       *)
(* InvestorLimitRule and a TransferLimitRule capping holdings at two        *)
(* tokens, and the status cache written by the owner or the token.          *)

StatusTexts == {"under review"}
StatusCallers == Callers \cup {TokenAddress}
StatusAccounts == {"A", "B"}

InitStatus ==
    /\ token = [TokenInit EXCEPT !.transfersEnabled = TRUE]
    /\ registry = RegistryWith(<<"A", "B", "C">>, LevelBasic, "US")
    /\ compliance = ComplianceInit(<<RuleILR, RuleTLR>>)
    /\ ilr = ILRInit(MaxInvestorsBound)
    /\ geo = GEOInit(FALSE)
    /\ acc = ACCInit
    /\ hpr = HPRInit(1)
    /\ tlr = TLRInit(2, 0, 0)
    /\ now = 1
    /\ factory = FactoryInit

NextStatus ==
    \/ \E s \in Callers, to \in Addresses, amount \in 0..MaxSupply :
          Mint(s, to, amount)
    \/ \E s \in Callers, from \in Addresses, amount \in 0..MaxSupply :
          Burn(s, from, amount)
    \/ \E s \in Accounts, to \in Addresses, amount \in 0..MaxSupply :
          Transfer(s, to, amount)
    \/ \E s \in StatusCallers, a \in StatusAccounts, c \in BOOLEAN,
          t \in StatusTexts : UpdateComplianceStatus(s, a, c, t)
    \/ \E s \in StatusCallers, l \in ListsOver(StatusAccounts),
          c \in ListsOver(BOOLEAN), t \in ListsOver(StatusTexts) :
          BatchUpdateComplianceStatus(s, l, c, t)

SpecStatus == InitStatus /\ [][NextStatus]_vars

-----------------------------------------------------------------------------
(* The IdentityRegistry under every operation that writes verification      *)
(* records, single and batched, with the default expiration period set by   *)
(* the owner.                                                               *)

EnrolLevels == {LevelNone, LevelBasic, LevelAccredited}
EnrolPeriods == {0, 1, MaxUint}
Hashes == {"h"}

NextEnrol ==
    \/ \E s \in Callers, a \in RegAccounts \cup {Zero}, l \in EnrolLevels,
          e \in ExpirationDates : AddVerifiedAddress(s, a, l, "US", e)
    \/ \E s \in {Admin, "C"}, a \in ListsOver(RegAccounts \cup {Zero}),
          l \in ListsOver(EnrolLevels), j \in ListsOver({"KP"}),
          h \in ListsOver(Hashes) : BatchVerifyAddresses(s, a, l, j, h)
    \/ \E s \in Callers, a \in RegAccounts : RemoveVerification(s, a)
    \/ \E s \in Callers, a \in RegAccounts, l \in EnrolLevels :
          UpdateVerificationLevel(s, a, l)
    \/ \E s \in Callers, l \in ListsOver(RegAccounts) :
          CleanupExpiredVerifications(s, l)
    \/ \E s \in Callers, p \in EnrolPeriods : SetDefaultExpirationPeriod(s, p)
    \/ Tick

SpecEnrol == InitRegistry /\ [][NextEnrol]_vars

-----------------------------------------------------------------------------
(* The access control of the IdentityRegistry: the agent list and the       *)
(* ownership change while callers write the record of one account.          *)

NextAccess ==
    \/ \E s \in Callers, a \in Callers \cup {Zero} : AddAuthorizedAgent(s, a)
    \/ \E s \in Callers, a \in Callers : RemoveAuthorizedAgent(s, a)
    \/ \E s \in Callers, o \in {Admin, "B", Zero} :
          RegistryTransferOwnership(s, o)
    \/ \E s \in Callers, l \in {LevelNone, LevelBasic} :
          AddVerifiedAddress(s, "A", l, "US", MaxTime)
    \/ \E s \in Callers :
          BatchVerifyAddresses(s, <<"A">>, <<LevelBasic>>, <<"KP">>, <<"h">>)
    \/ \E s \in Callers : RemoveVerification(s, "A")
    \/ \E s \in Callers, l \in {LevelNone, LevelAccredited} :
          UpdateVerificationLevel(s, "A", l)

SpecAccess == InitRegistry /\ [][NextAccess]_vars

-----------------------------------------------------------------------------
(* Administration: the token and the compliance module belong to one owner  *)
(* and the rules to one owner, each the deployer or an account ownership    *)
(* was transferred to; every caller, the token included, tries every        *)
(* administrative operation. Most setters write the value already stored.   *)

AdminCallers == Callers \cup {TokenAddress}

InitAdmin ==
    \E tokenOwner \in {Admin, "A"}, ruleOwner \in {Admin, "B"} :
       /\ token = [TokenInit EXCEPT !.owner = tokenOwner]
       /\ registry = RegistryWith(<<"A", "B", "C">>, LevelBasic, "US")
       /\ compliance = [ComplianceInit(<<RuleILR>>) EXCEPT !.owner = tokenOwner]
       /\ ilr = [ILRInit(MaxInvestorsBound) EXCEPT !.owner = ruleOwner]
       /\ geo = [GEOInit(FALSE) EXCEPT !.owner = ruleOwner]
       /\ acc = [ACCInit EXCEPT !.owner = ruleOwner]
       /\ hpr = [HPRInit(1) EXCEPT !.owner = ruleOwner]
       /\ tlr = [TLRInit(MaxSupply, 0, 0) EXCEPT !.owner = ruleOwner]
       /\ now = 1
       /\ factory = FactoryInit

TokenAdmin(s) ==
    \/ Pause(s)
    \/ Unpause(s)
    \/ \E enabled \in BOOLEAN : SetTransfersEnabled(s, enabled)
    \/ Mint(s, "A", 1)
    \/ Burn(s, "A", 1)
    \/ \E c \in {Zero, "compliance"} : SetCompliance(s, c)
    \/ \E r \in {Zero, "registry"} : SetIdentityRegistry(s, r)

ComplianceAdmin(s) ==
    \/ \E r \in {RuleGEO, Zero} : AddRule(s, r)
    \/ \E r \in {RuleGEO, RuleACC} : RemoveRule(s, r)
    \/ ResetRules(s)

RuleAdmin(s) ==
    \/ SetMaxInvestors(s, MaxInvestorsBound)
    \/ \E active \in BOOLEAN : ILRSetActive(s, active)
    \/ InitializeInvestorCount(s, <<>>)
    \/ SetJurisdiction(s, "KP", FALSE)
    \/ SetMode(s, FALSE)
    \/ GEOSetActive(s, TRUE)
    \/ SetMinimumLevel(s, LevelAccredited)
    \/ ACCSetExemption(s, "A", FALSE)
    \/ ACCSetActive(s, TRUE)
    \/ SetHoldingPeriod(s, 1)
    \/ SetCustomHoldingPeriod(s, "A", 0)
    \/ HPRSetExemption(s, "A", FALSE)
    \/ HPRSetActive(s, TRUE)
    \/ SetMaxTokensPerInvestor(s, MaxSupply)
    \/ SetMaxInvestmentAmount(s, 0)
    \/ SetTokenPrice(s, 0)
    \/ SetCustomLimit(s, "A", 0)
    \/ TLRSetExemption(s, "A", FALSE)
    \/ TLRSetActive(s, TRUE)

NextAdmin ==
    \/ \E s \in AdminCallers : TokenAdmin(s)
    \/ \E s \in AdminCallers : ComplianceAdmin(s)
    \/ \E s \in AdminCallers : RuleAdmin(s)
    \/ \E s \in AdminCallers : ILRUpdateInvestorCount(s, Zero, "A", 1)

SpecAdmin == InitAdmin /\ [][NextAdmin]_vars

-----------------------------------------------------------------------------
(* The ledger from the constructed token on: the constructor leaves the      *)
(* compliance module and the identity registry unset, the owner wires them,  *)
(* and the registry's records change and expire while the ledger is used.    *)

TokenConstructed ==
    [TokenInit EXCEPT !.compliance = FALSE, !.identityRegistry = FALSE]

LedgerAccounts == {"A", "B"}

LedgerExpirations == {2, MaxTime}

ApproveAmounts == {0, MaxSupply}

InitLedger ==
    /\ token = TokenConstructed
    /\ registry = RegistryInit
    /\ compliance = ComplianceInit(<<RuleILR>>)
    /\ ilr = ILRInit(MaxInvestorsBound)
    /\ geo = GEOInit(FALSE)
    /\ acc = ACCInit
    /\ hpr = HPRInit(1)
    /\ tlr = TLRInit(MaxSupply, 0, 0)
    /\ now = 1
    /\ factory = FactoryInit

NextLedger ==
    \/ \E s \in {Admin, "A"} : SetIdentityRegistry(s, "registry")
    \/ \E s \in {Admin, "A"}, to \in LedgerAccounts, amount \in 0..MaxSupply :
          Mint(s, to, amount)
    \/ \E s \in {Admin, "A"}, from \in LedgerAccounts, amount \in 1..MaxSupply :
          Burn(s, from, amount)
    \/ \E s \in LedgerAccounts, to \in LedgerAccounts, amount \in 0..MaxSupply :
          Transfer(s, to, amount)
    \/ \E from \in LedgerAccounts, to \in LedgerAccounts,
          amount \in 0..MaxSupply : TransferFrom("C", from, to, amount)
    \/ \E amount \in ApproveAmounts : Approve("A", "C", amount)
    \/ \E s \in {Admin, "A"}, enabled \in BOOLEAN :
          SetTransfersEnabled(s, enabled)
    \/ \E s \in {Admin, "A"} : Pause(s)
    \/ \E s \in {Admin, "A"} : Unpause(s)
    \/ \E a \in LedgerAccounts, e \in LedgerExpirations :
          AddVerifiedAddress(Admin, a, LevelBasic, "US", e)
    \/ \E a \in LedgerAccounts : RemoveVerification(Admin, a)
    \/ Tick

SpecLedger == InitLedger /\ [][NextLedger]_vars

-----------------------------------------------------------------------------
(* The factory: deployRWAToken builds a registry, a token and a compliance   *)
(* module, wires them, hands all three to the caller and then adds the       *)
(* rules of the regulatory framework. The model holds one deployment.        *)

Frameworks == {"reg-d", "reg-s"}

Names == {"", "RWA"}

Fees == 0..MaxPrice

Deployers == {"A", "B"}

(* The DeploymentParams that the deployment reads. *)
DeploymentParams ==
    [name : Names, symbol : Names, maxSupply : 0..MaxSupply,
     regulatoryFramework : Frameworks, enableInvestorLimit : BOOLEAN,
     maxInvestors : 0..MaxInvestorsBound]

RegDParams(maxSupply, maxInvestors) ==
    [name |-> "RWA", symbol |-> "RWA", maxSupply |-> maxSupply,
     regulatoryFramework |-> "reg-d", enableInvestorLimit |-> TRUE,
     maxInvestors |-> maxInvestors]

WithInvestorLimit(params) ==
    params.regulatoryFramework = "reg-d" /\ params.enableInvestorLimit

(* _addComplianceRules, run by the factory after the three ownership         *)
(* transfers: the InvestorLimitRule constructor requires a non-zero token    *)
(* and a positive limit, and addRule is onlyOwner of the compliance module.  *)
AddComplianceRulesAllowed(sender, params, complianceOwner) ==
    WithInvestorLimit(params) =>
        /\ factory.tokenDeployments[sender] # Zero
        /\ params.maxInvestors > 0
        /\ FactoryAddress = complianceOwner

DeployRWATokenAllowed(sender, value, params) ==
    /\ value >= factory.deploymentFee
    /\ params.name # ""
    /\ params.symbol # ""
    /\ params.maxSupply > 0
    /\ sender # Zero
    /\ AddComplianceRulesAllowed(sender, params, sender)

DeployRWATokenResult(sender, params) ==
    [token |-> [TokenConstructed EXCEPT !.maxSupply = params.maxSupply,
                                        !.compliance = TRUE,
                                        !.identityRegistry = TRUE,
                                        !.owner = sender],
     registry |-> [RegistryInit EXCEPT !.authorizedAgents = {FactoryAddress},
                                       !.owner = sender],
     compliance |->
         [ComplianceInit(IF WithInvestorLimit(params) THEN <<RuleILR>>
                         ELSE <<>>) EXCEPT !.owner = sender],
     ilr |-> IF WithInvestorLimit(params)
             THEN [ILRInit(params.maxInvestors)
                      EXCEPT !.token = factory.tokenDeployments[sender],
                             !.owner = FactoryAddress]
             ELSE ilr,
     factory |-> [factory EXCEPT !.deployedTokens = @ \cup {TokenAddress},
                                 !.tokenDeployments[TokenAddress] =
                                     TokenAddress]]

DeployRWAToken(sender, value, params) ==
    /\ factory.deployedTokens = {}
    /\ DeployRWATokenAllowed(sender, value, params)
    /\ token' = DeployRWATokenResult(sender, params).token
    /\ registry' = DeployRWATokenResult(sender, params).registry
    /\ compliance' = DeployRWATokenResult(sender, params).compliance
    /\ ilr' = DeployRWATokenResult(sender, params).ilr
    /\ factory' = DeployRWATokenResult(sender, params).factory
    /\ UNCHANGED <<geo, acc, hpr, tlr, now>>

SetDeploymentFee(sender, fee) ==
    /\ sender = factory.owner
    /\ factory' = [factory EXCEPT !.deploymentFee = fee]
    /\ UNCHANGED <<token, registry, compliance, ilr, geo, acc, hpr, tlr, now>>

InitFactory ==
    /\ token = TokenConstructed
    /\ registry = RegistryInit
    /\ compliance = ComplianceInit(<<>>)
    /\ ilr = ILRInit(1)
    /\ geo = GEOInit(FALSE)
    /\ acc = ACCInit
    /\ hpr = HPRInit(1)
    /\ tlr = TLRInit(MaxSupply, 0, 0)
    /\ now = 1
    /\ factory = FactoryInit

Deployed == factory.deployedTokens # {}

NextFactory ==
    \/ \E s \in Deployers, value \in Fees, params \in DeploymentParams :
          DeployRWAToken(s, value, params)
    \/ \E s \in {Admin, "A"}, fee \in Fees : SetDeploymentFee(s, fee)
    \/ \E s \in Deployers \cup {FactoryAddress}, a \in Deployers :
          Deployed /\ AddVerifiedAddress(s, a, LevelBasic, "US", MaxTime)
    \/ \E s \in Deployers \cup {FactoryAddress}, a \in Deployers :
          Deployed /\ RemoveVerification(s, a)
    \/ \E s \in Deployers : Deployed /\ RemoveAuthorizedAgent(s, FactoryAddress)
    \/ \E s \in Deployers : Deployed /\ AddAuthorizedAgent(s, FactoryAddress)
    \/ \E s \in Deployers, to \in Deployers, amount \in 1..MaxSupply :
          Deployed /\ Mint(s, to, amount)
    \/ \E s \in Deployers : Deployed /\ AddRule(s, RuleILR)

SpecFactory == InitFactory /\ [][NextFactory]_vars

-----------------------------------------------------------------------------
(* Vocabulary of the properties *)

Holders == {a \in Accounts : token.balances[a] > 0}

Flagged == {a \in Addresses : ilr.isInvestor[a]}

(* This step is the balance change of the ledger operation (from, to,       *)
(* amount): a mint for from = Zero, a burn for to = Zero, else a transfer.  *)
Moved(from, to, amount) ==
    /\ amount > 0
    /\ from # to
    /\ token'.balances = UpdateResult(from, to, amount).balances
    /\ token'.totalSupply = UpdateResult(from, to, amount).totalSupply
    /\ from # Zero => token.balances[from] >= amount

(* C2: every balance-changing operation of the ledger (mint, burn,          *)
(* transfer, transferFrom) changes balances only if the aggregator's        *)
(* canTransfer(from, to, amount), evaluated before the change, is true; a   *)
(* mint is checked with from = Zero and a burn with to = Zero.              *)
C2_ChangeOnlyIfCompliant ==
    [][\A from \in Addresses, to \in Addresses, amount \in 1..MaxSupply :
          (token.compliance /\ Moved(from, to, amount))
             => ComplianceCanTransfer(from, to, amount) = "true"]_vars

(* C3: after every mint, burn or transfer that succeeds the ledger has      *)
(* invoked the rule update hooks once with the same (from, to, amount): the *)
(* InvestorLimitRule is left as updateInvestorCount, run after the balance  *)
(* change, leaves it.                                                       *)
C3_HooksAfterSuccess ==
    [][\A from \in Addresses, to \in Addresses, amount \in 1..MaxSupply :
          Moved(from, to, amount)
             => ilr' = UpdateInvestorCount(ilr, token'.balances, from, to, amount)]_vars

(* C5: with an active InvestorLimitRule registered before the first mint    *)
(* and maxInvestors never lowered, the number of accounts with a strictly   *)
(* positive balance never exceeds maxInvestors.                             *)
C5_HoldersWithinCap ==
    (HasRule(RuleILR) /\ ilr.active) => Cardinality(Holders) <= ilr.maxInvestors

(* C6: with an active InvestorLimitRule and maxInvestors = N, a mint of a   *)
(* positive amount that makes a new holder happens only while               *)
(* currentInvestorCount < N and raises currentInvestorCount by one, so the  *)
(* mint after the N-th holder is blocked and the count stays N.             *)
C6_MintsCountedAndCapped ==
    [][\A to \in Accounts, amount \in 1..MaxSupply :
          (HasRule(RuleILR) /\ ilr.active /\ token.balances[to] = 0
             /\ Moved(Zero, to, amount))
          => /\ Cardinality(Holders) < ilr.maxInvestors
             /\ ilr.currentInvestorCount < ilr.maxInvestors
             /\ ilr'.currentInvestorCount = ilr.currentInvestorCount + 1]_vars

(* C7: in every reachable state of the InvestorLimitRule,                   *)
(* currentInvestorCount is the number of accounts flagged isInvestor.       *)
C7_CountEqualsFlags ==
    ilr.currentInvestorCount = Cardinality(Flagged)

(* C8: when updateInvestorCount runs after the balance change of every      *)
(* successful mint, burn and transfer and the rule stays active, the        *)
(* flagged accounts are exactly the accounts with a strictly positive       *)
(* balance and currentInvestorCount is their number.                        *)
C8_FlagsTrackBalances ==
    /\ Flagged = Holders
    /\ ilr.currentInvestorCount = Cardinality(Holders)

-----------------------------------------------------------------------------
(* Claim C1: the aggregator ComplianceModule.canTransfer(from, to, amount)  *)
(* returns true exactly when every registered rule that is active returns   *)
(* true for the same arguments; with no rule registered it returns true.    *)
C1_AggregatorIsConjunction ==
    \A from \in Addresses, to \in Addresses, amount \in 0..MaxSupply :
       (ComplianceCanTransfer(from, to, amount) = "true")
       <=> (\A i \in 1..GetRuleCount :
               RuleIsActive(compliance.rules[i])
               => RuleCanTransfer(compliance.rules[i], from, to, amount) = "true")

(* Two different rules are registered and active, one passes the transfer   *)
(* from A to B and the other blocks it, and the aggregator blocks it.       *)
C1_Witness ==
    /\ HasRule(RuleACC) /\ acc.active
    /\ HasRule(RuleGEO) /\ geo.active
    /\ ACCCanTransfer("A", "B", 1) = "true"
    /\ GEOCanTransfer("A", "B", 1) = "false"
    /\ ComplianceCanTransfer("A", "B", 1) = "false"

(* The rule list with one rule taken out, the others in their order. *)
RulesWithout(rule) == SelectSeq(compliance.rules, LAMBDA r : r # rule)

(* Claim C4: a registered rule whose isActive() is false does not affect    *)
(* the aggregator: canTransfer returns what it returns over the rule list   *)
(* without that rule, whatever the rule's internal state.                   *)
C4_InactiveRuleIgnored ==
    \A rule \in RuleKinds :
       (HasRule(rule) /\ ~RuleIsActive(rule))
       => \A from \in Addresses, to \in Addresses, amount \in 0..MaxSupply :
             ComplianceCanTransfer(from, to, amount)
             = CanTransferOver(RulesWithout(rule), from, to, amount)

(* The holding-period rule is registered and switched off, its state would  *)
(* block a transfer from B, and the aggregator lets the transfer pass.      *)
C4_Witness ==
    /\ HasRule(RuleHPR) /\ ~hpr.active
    /\ "B" \notin hpr.exemptAddresses
    /\ HasHoldingPeriodPassed("B") = "false"
    /\ Len(compliance.rules) > 1
    /\ ComplianceCanTransfer("B", "A", 1) = "true"

(* Claim C9: for an active rule and a non-exempt sender with acquisition    *)
(* time T0 > 0 and applicable period P (the custom period when one is set), *)
(* canTransfer is false at every now < T0 + P and true at every             *)
(* now >= T0 + P.                                                           *)
C9_BoundaryInclusive ==
    \A from \in Accounts, to \in Accounts :
       (hpr.active /\ from \notin hpr.exemptAddresses
          /\ hpr.acquisitionTimestamp[from] # 0)
       => HPRCanTransfer(from, to, 1)
          = B(now >= hpr.acquisitionTimestamp[from] + ApplicablePeriod(from))

(* Claim C10: an active HoldingPeriodRule returns false for a transfer      *)
(* whose non-exempt sender has no recorded acquisition time, and returns    *)
(* true whenever the sender is exempt or the transfer is a mint or a burn.  *)
C10_FailClosedWithoutAcquisition ==
    \A from \in Addresses, to \in Addresses, amount \in 0..MaxSupply :
       /\ (hpr.active /\ from # Zero /\ to # Zero
             /\ from \notin hpr.exemptAddresses
             /\ hpr.acquisitionTimestamp[from] = 0)
          => HPRCanTransfer(from, to, amount) = "false"
       /\ (from = Zero \/ to = Zero \/ from \in hpr.exemptAddresses)
          => HPRCanTransfer(from, to, amount) = "true"

(* The rule is active; A is not exempt, has no acquisition time, and the    *)
(* clock has passed A's period counted from zero, yet A is blocked; B is    *)
(* exempt, still inside its holding period, and passes.                     *)
C10_Witness ==
    /\ hpr.active
    /\ "A" \notin hpr.exemptAddresses
    /\ hpr.acquisitionTimestamp["A"] = 0
    /\ now >= ApplicablePeriod("A")
    /\ HPRCanTransfer("A", "B", 1) = "false"
    /\ "B" \in hpr.exemptAddresses
    /\ HasHoldingPeriodPassed("B") = "false"
    /\ hpr.acquisitionTimestamp["B"] # 0
    /\ HPRCanTransfer("B", "A", 1) = "true"

-----------------------------------------------------------------------------
(* Claim C11: for every address with a stored record, isVerified is false   *)
(* and getVerificationLevel is None at every time now >= expirationDate,    *)
(* the instant now = expirationDate included; at every earlier time they    *)
(* are true and the stored level.                                           *)
C11_ExpiredFromExpirationDate ==
    \A a \in Accounts :
       registry.identities[a].isVerified
       => IF now >= registry.identities[a].expirationDate
          THEN ~RegistryIsVerified(a) /\ GetVerificationLevel(a) = LevelNone
          ELSE RegistryIsVerified(a)
               /\ GetVerificationLevel(a) = registry.identities[a].level

-----------------------------------------------------------------------------
(* Claim C12: an active GeographicRule returns false, in either mode and    *)
(* for every jurisdiction configuration, whenever a party it checks is      *)
(* unverified (no record, or a record expired at the current time): both    *)
(* parties of a transfer, the recipient of a mint, the sender of a burn.    *)
C12_UnverifiedPartyBlocked ==
    geo.active =>
       \A from \in Accounts, to \in Accounts :
          /\ ~RegistryIsVerified(to) => GEOCanTransfer(Zero, to, 1) = "false"
          /\ ~RegistryIsVerified(from) => GEOCanTransfer(from, Zero, 1) = "false"
          /\ (~RegistryIsVerified(from) \/ ~RegistryIsVerified(to))
             => GEOCanTransfer(from, to, 1) = "false"

(* The jurisdiction of a party's record passes the configured list. *)
JurisdictionPasses(account) ==
    IF geo.isAllowlistMode
    THEN registry.identities[account].jurisdiction \in geo.jurisdictionStatus
    ELSE registry.identities[account].jurisdiction \notin geo.jurisdictionStatus

(* Claim C13: for verified parties an active GeographicRule passes a party  *)
(* in Allowlist mode exactly when its jurisdiction is marked true and in    *)
(* Blocklist mode exactly when it is not; a transfer passes iff both        *)
(* parties pass, a mint iff the recipient passes, a burn iff the sender     *)
(* passes.                                                                  *)
C13_JurisdictionDecides ==
    geo.active =>
       \A from \in Accounts, to \in Accounts, amount \in 0..MaxSupply :
          /\ RegistryIsVerified(to)
             => GEOCanTransfer(Zero, to, amount) = B(JurisdictionPasses(to))
          /\ RegistryIsVerified(from)
             => GEOCanTransfer(from, Zero, amount) = B(JurisdictionPasses(from))
          /\ (RegistryIsVerified(from) /\ RegistryIsVerified(to))
             => GEOCanTransfer(from, to, amount)
                = B(JurisdictionPasses(from) /\ JurisdictionPasses(to))

(* Allowlist mode with only "US" marked: A (US) and B (KP, never marked)    *)
(* are both verified; the mint to A passes, the transfer from A to B and    *)
(* the burn from B are blocked.                                             *)
C13_Witness ==
    /\ geo.active /\ geo.isAllowlistMode
    /\ geo.jurisdictionStatus = {"US"}
    /\ RegistryIsVerified("A") /\ registry.identities["A"].jurisdiction = "US"
    /\ RegistryIsVerified("B") /\ registry.identities["B"].jurisdiction = "KP"
    /\ GEOCanTransfer(Zero, "A", 1) = "true"
    /\ GEOCanTransfer("A", "B", 1) = "false"
    /\ GEOCanTransfer("B", Zero, 1) = "false"

-----------------------------------------------------------------------------
(* Claim C14: an active AccreditedInvestorRule decides a mint or a transfer *)
(* by the recipient alone: it passes iff the recipient is exempt or the     *)
(* level the registry reports for it now is at least minimumLevel; the      *)
(* sender's level and exemption do not matter, and a burn always passes.    *)
C14_RecipientOnly ==
    acc.active =>
       \A from \in Addresses, to \in Accounts, amount \in 0..MaxSupply :
          /\ ACCCanTransfer(from, to, amount)
             = B(to \in acc.exemptAddresses
                 \/ GetVerificationLevel(to) >= acc.minimumLevel)
          /\ ACCCanTransfer(to, Zero, amount) = "true"

(* A has no level and no exemption, B meets the minimum: the transfer from  *)
(* A to B passes, the transfer from B to A is blocked, A's burn passes.     *)
C14_Witness ==
    /\ acc.active
    /\ "A" \notin acc.exemptAddresses
    /\ GetVerificationLevel("A") = LevelNone
    /\ GetVerificationLevel("B") >= acc.minimumLevel
    /\ ACCCanTransfer("A", "B", 1) = "true"
    /\ ACCCanTransfer("B", "A", 1) = "false"
    /\ ACCCanTransfer("A", Zero, 1) = "true"

-----------------------------------------------------------------------------
(* The token cap of an account, when one applies, admits amount more. *)
TokenCapHolds(account, amount) ==
    tlr.maxTokensPerInvestor > 0
    => token.balances[account] + amount
       <= (IF tlr.hasCustomLimit[account] THEN tlr.customMaxTokens[account]
           ELSE tlr.maxTokensPerInvestor)

(* The USD cap, when configured with a price, admits the value of amount. *)
UsdCapHolds(account, amount) ==
    (tlr.maxInvestmentAmount > 0 /\ tlr.tokenPriceUSDCents > 0)
    => tlr.totalInvestmentUSD[account]
         + (amount * tlr.tokenPriceUSDCents) \div TokenUnit
       <= tlr.maxInvestmentAmount

(* Claim C15: an active TransferLimitRule passes a mint or a transfer to a  *)
(* non-exempt recipient iff every configured cap holds: the balance plus    *)
(* the amount is within the recipient's token cap (its custom cap if set,   *)
(* else maxTokensPerInvestor), and the recorded investment plus the value   *)
(* of the amount is within maxInvestmentAmount; exempt recipients and       *)
(* burns always pass.                                                       *)
C15_CapsDecide ==
    tlr.active =>
       \A from \in Addresses, to \in Accounts, amount \in Amounts :
          /\ to \notin tlr.exemptAddresses
             => ((TLRCanTransfer(from, to, amount) = "true")
                 <=> (TokenCapHolds(to, amount) /\ UsdCapHolds(to, amount)))
          /\ to \in tlr.exemptAddresses
             => TLRCanTransfer(from, to, amount) = "true"
          /\ TLRCanTransfer(to, Zero, amount) = "true"

-----------------------------------------------------------------------------
(* Claim C16: with recordInvestment called after every receipt, and the     *)
(* price and the USD cap fixed, the value in cents of all the tokens an     *)
(* account has received (tokens received times the unit price, divided by   *)
(* the scale factor) never exceeds maxInvestmentAmount, however the         *)
(* receipts are split.                                                      *)
C16_ReceivedValueWithinCap ==
    \A a \in Accounts :
       (token.balances[a] * tlr.tokenPriceUSDCents) \div TokenUnit
       <= tlr.maxInvestmentAmount

-----------------------------------------------------------------------------
(* Some check of the ledger operation (from, to, amount) does not return    *)
(* true in the current state: the aggregator's canTransfer, the token's own *)
(* canTransfer for a transfer, or the recipient's verification for a mint.  *)
FailedCheck(from, to, amount) ==
    \/ ComplianceCanTransfer(from, to, amount) # "true"
    \/ from # Zero /\ to # Zero /\ TokenCanTransfer(from, to, amount) # "true"
    \/ from = Zero /\ ~TokenIsVerified(to)

(* Claim C17: a mint, burn or transfer for which any check returns false is *)
(* aborted as a whole: no step makes the balance and supply change of an    *)
(* operation one of whose checks fails in the state before the step.        *)
C17_FailedCheckAborts ==
    [][\A from \in Addresses, to \in Addresses, amount \in 1..MaxSupply :
          FailedCheck(from, to, amount) => ~Moved(from, to, amount)]_vars

-----------------------------------------------------------------------------
(* Claim C18: canTransfer of every rule and of the aggregator returns a     *)
(* boolean and never aborts, for every (from, to, amount) and every         *)
(* reachable state, sums and products that exceed the integer width         *)
(* included.                                                                *)
C18_NeverAborts ==
    \A from \in Addresses, to \in Addresses, amount \in Amounts :
       /\ \A rule \in RuleKinds :
             RuleCanTransfer(rule, from, to, amount) \in {"true", "false"}
       /\ ComplianceCanTransfer(from, to, amount) \in {"true", "false"}

-----------------------------------------------------------------------------
(* The registered rules in every order of evaluation. *)
Reorderings(rules) ==
    {[i \in 1..Len(rules) |-> rules[p[i]]] : p \in Permutations(1..Len(rules))}

(* Claim C19: canTransfer of the aggregator and of the rules only reads     *)
(* state, so the aggregator's result for (from, to, amount) is the same     *)
(* whatever the order in which the registered rules are evaluated.          *)
C19_OrderIndependent ==
    \A order \in Reorderings(compliance.rules) :
       \A from \in Addresses, to \in Addresses, amount \in Amounts :
          CanTransferOver(order, from, to, amount)
          = ComplianceCanTransfer(from, to, amount)

-----------------------------------------------------------------------------
(* Claim C20: the rule list read by getRules() and walked by canTransfer    *)
(* holds the registered rules in the order in which they were added: a      *)
(* successful addRule puts the rule last and a successful removeRule takes  *)
(* the rule out without reordering the rules that remain.                   *)
C20_InsertionOrderKept ==
    [][compliance.rules' # compliance.rules
       => \E rule \in RuleKinds :
             \/ ~HasRule(rule) /\ compliance.rules' = Append(compliance.rules, rule)
             \/ HasRule(rule) /\ compliance.rules' = RulesWithout(rule)]_vars

-----------------------------------------------------------------------------
(* Claim C21: addRule(rule) is rejected when the rule is already            *)
(* registered and removeRule(rule) when it is not; the rule list changes    *)
(* only by an accepted addRule, removeRule or resetRules, so a rejected     *)
(* call leaves it as it was; in every reachable state no rule is listed     *)
(* twice and getRuleCount() is the number of rules with hasRule true.       *)
C21_RuleSetKept ==
    /\ [](/\ \A s \in Callers, rule \in RuleKinds :
              /\ HasRule(rule) => ~AddRuleAllowed(s, rule)
              /\ ~HasRule(rule) => ~RemoveRuleAllowed(s, rule)
          /\ \A i, j \in 1..Len(compliance.rules) :
                i # j => compliance.rules[i] # compliance.rules[j]
          /\ GetRuleCount
               = Cardinality({rule \in RuleKinds \cup {Zero} : HasRule(rule)}))
    /\ [][compliance.rules' # compliance.rules
           => \E s \in Callers :
                 \/ \E rule \in RuleKinds :
                       /\ AddRuleAllowed(s, rule)
                       /\ compliance.rules' = Append(compliance.rules, rule)
                 \/ \E rule \in RuleKinds :
                       /\ RemoveRuleAllowed(s, rule)
                       /\ compliance.rules' = SetRemove(compliance.rules, rule)
                 \/ /\ s = compliance.owner
                    /\ compliance.rules' = <<>>]_vars

(* Rules were added and one was removed: a second addRule of a held rule    *)
(* and a removeRule of the absent one are the rejected calls.               *)
C21_Witness ==
    /\ GetRuleCount = 2
    /\ HasRule(RuleILR) /\ HasRule(RuleTLR)
    /\ ~HasRule(RuleGEO)
    /\ compliance.rules[1] = RuleTLR

-----------------------------------------------------------------------------
(* The step changes nothing but entries of the status cache. *)
OnlyStatusCacheDiffers ==
    /\ compliance.rules' = compliance.rules
    /\ compliance.token' = compliance.token
    /\ compliance.owner' = compliance.owner
    /\ UNCHANGED <<token, registry, ilr, geo, acc, hpr, tlr, now, factory>>

(* The answers of the aggregator and of the ledger in the current state. *)
LedgerOutcomes ==
    [canTransfer |->
        [t \in Addresses \X Addresses \X (0..MaxSupply) |->
            <<ComplianceCanTransfer(t[1], t[2], t[3]),
              TokenCanTransfer(t[1], t[2], t[3])>>],
     mint |->
        [t \in Callers \X Addresses \X (0..MaxSupply) |->
            IF MintAllowed(t[1], t[2], t[3])
            THEN <<TRUE, MintResult(t[2], t[3])>> ELSE <<FALSE>>],
     burn |->
        [t \in Callers \X Addresses \X (0..MaxSupply) |->
            IF BurnAllowed(t[1], t[2], t[3])
            THEN <<TRUE, BurnResult(t[2], t[3])>> ELSE <<FALSE>>],
     transfer |->
        [t \in Accounts \X Addresses \X (0..MaxSupply) |->
            IF TransferAllowed(t[1], t[2], t[3])
            THEN <<TRUE, TransferResult(t[1], t[2], t[3])>> ELSE <<FALSE>>]]

(* Claim C22: the status cache gates nothing. Two states that differ only   *)
(* in the status cache give the same ComplianceModule.canTransfer and the   *)
(* same outcome of every mint, burn and transfer of the ledger, and         *)
(* updateComplianceStatus and batchUpdateComplianceStatus change nothing    *)
(* but the cache entries of the accounts they name.                         *)
C22_StatusCacheGatesNothing ==
    /\ [][OnlyStatusCacheDiffers => LedgerOutcomes' = LedgerOutcomes]_vars
    /\ [][compliance' # compliance => OnlyStatusCacheDiffers]_vars
    /\ [](\A account \in StatusAccounts, c \in BOOLEAN, t \in StatusTexts :
            \A other \in Addresses \ {account} :
               UpdateComplianceStatusResult(compliance, account, c, t)
                  .complianceStatus[other]
               = compliance.complianceStatus[other])
    /\ [](\A l \in ListsOver(StatusAccounts), c \in ListsOver(BOOLEAN),
            t \in ListsOver(StatusTexts) :
            BatchUpdateAllowed(Admin, l, c, t)
            => \A other \in Addresses :
                  ~SetContains(l, other)
                  => BatchUpdateResult(l, c, t).complianceStatus[other]
                     = compliance.complianceStatus[other])

(* The sender A is cached as non-compliant while it holds tokens that the   *)
(* aggregator lets it transfer to B: the cache and the live rules disagree. *)
C22_Witness ==
    /\ compliance.complianceStatus["A"].lastUpdate # 0
    /\ ~compliance.complianceStatus["A"].isCompliant
    /\ compliance.complianceStatus["B"].isCompliant
    /\ token.balances["A"] = 1
    /\ ComplianceCanTransfer("A", "B", 1) = "true"
    /\ ComplianceCanTransfer("A", "B", 2) = "false"
    /\ TransferAllowed("A", "B", 1)

-----------------------------------------------------------------------------
(* Claim C23: addVerifiedAddress is rejected, and so changes neither the    *)
(* records nor the verified set, when the account is the zero address, the  *)
(* level is None or the expiry is at or before the current time; otherwise  *)
(* an authorized caller is accepted and the record holds the given level,   *)
(* jurisdiction and expiry, with the account in the verified set. No step   *)
(* gives a record a new expiry that is not after the current time.          *)
C23_AddRejectsInvalid ==
    /\ [](\A s \in Callers, a \in Addresses, l \in Levels, e \in 0..MaxTime :
            /\ (a = Zero \/ l = LevelNone \/ e <= now)
                  => ~AddVerifiedAddressAllowed(s, a, l, e)
            /\ (OnlyAuthorized(s) /\ a # Zero /\ l # LevelNone /\ e > now)
                  => /\ AddVerifiedAddressAllowed(s, a, l, e)
                     /\ \A j \in Jurisdictions :
                           LET reg == Onboarded(registry, a, l, j, e)
                           IN /\ reg.identities[a]
                                  = [isVerified |-> TRUE, level |-> l,
                                     jurisdiction |-> j, expirationDate |-> e]
                              /\ SetContains(reg.verifiedAddresses, a)
                              /\ \A b \in Addresses \ {a} :
                                    reg.identities[b] = registry.identities[b])
    /\ [][\A a \in Addresses :
             (/\ registry.identities[a]' # registry.identities[a]
              /\ registry.identities[a]'.isVerified
              /\ \/ ~registry.identities[a].isVerified
                 \/ registry.identities[a]'.expirationDate
                      # registry.identities[a].expirationDate)
             => /\ a # Zero
                /\ registry.identities[a]'.level # LevelNone
                /\ registry.identities[a]'.expirationDate > now]_vars

(* After the clock advanced, A was verified with the earliest expiry that   *)
(* is accepted: one step after the current time.                            *)
C23_Witness ==
    /\ now = 2
    /\ registry.identities["A"].isVerified
    /\ registry.identities["A"].expirationDate = now + 1
    /\ registry.identities["A"].level = LevelAccredited
    /\ registry.identities["A"].jurisdiction = "KP"
    /\ SetContains(registry.verifiedAddresses, "A")

-----------------------------------------------------------------------------
(* The number of entries of the verified set that are the account. *)
Entries(account) ==
    Cardinality({i \in 1..Len(registry.verifiedAddresses) :
                    registry.verifiedAddresses[i] = account})

(* Claim C24: under addVerifiedAddress, batchVerifyAddresses,               *)
(* removeVerification, updateVerificationLevel and                          *)
(* cleanupExpiredVerifications the verified set lists an account once if    *)
(* it has a stored record and not at all otherwise, so that                 *)
(* getVerifiedAddressCount is the number of stored records and the page     *)
(* from 0 of that length is the whole set; removeVerification of an         *)
(* account without a record is rejected.                                    *)
C24_SetMatchesRecords ==
    /\ \A a \in Addresses :
          Entries(a) = IF registry.identities[a].isVerified THEN 1 ELSE 0
    /\ GetVerifiedAddressCount
         = Cardinality({a \in Addresses : registry.identities[a].isVerified})
    /\ GetVerifiedAddresses(0, GetVerifiedAddressCount)
         = [reverts |-> FALSE, result |-> registry.verifiedAddresses]
    /\ \A s \in Callers, a \in Addresses :
          ~registry.identities[a].isVerified => ~RemoveVerificationAllowed(s, a)

(* B was verified after A, A was verified again by a batch (its expiry is   *)
(* the batch's) and keeps its single entry in front of B.                   *)
C24_Witness ==
    /\ registry.verifiedAddresses = <<"A", "B">>
    /\ registry.identities["A"].jurisdiction = "KP"
    /\ registry.identities["B"].jurisdiction = "US"
    /\ registry.identities["A"].expirationDate = now + 1

-----------------------------------------------------------------------------
(* Claim C25: cleanupExpiredVerifications(accounts), from any caller,       *)
(* deletes the record and the set entry of exactly the listed accounts      *)
(* whose verification is expired at the current time (the current time has  *)
(* reached the expiry), leaves every other record and set entry as it was,  *)
(* and a second call with the same list at the same time changes nothing.   *)
C25_CleanupDeletesExpired ==
    \A l \in ListsOver(RegAccounts) :
       LET reg == CleanupLoop(registry, l, 1)
       IN /\ \A a \in Addresses :
                IF /\ SetContains(l, a)
                   /\ registry.identities[a].isVerified
                   /\ now >= registry.identities[a].expirationDate
                THEN /\ reg.identities[a] = NoIdentity
                     /\ ~SetContains(reg.verifiedAddresses, a)
                ELSE /\ reg.identities[a] = registry.identities[a]
                     /\ SetContains(reg.verifiedAddresses, a)
                          = SetContains(registry.verifiedAddresses, a)
          /\ CleanupLoop(reg, l, 1) = reg
          /\ \A s \in Callers : ENABLED CleanupExpiredVerifications(s, l)

-----------------------------------------------------------------------------
(* The batches of the registry's callers. *)
Batches ==
    ListsOver(RegAccounts \cup {Zero}) \X ListsOver(EnrolLevels)
       \X ListsOver({"KP"}) \X ListsOver(Hashes)

(* A single addVerifiedAddress would reject an element, or the lengths of   *)
(* the arrays differ.                                                       *)
BatchRejected(b) ==
    \/ Len(b[1]) # Len(b[2])
    \/ Len(b[1]) # Len(b[3])
    \/ Len(b[1]) # Len(b[4])
    \/ \E i \in 1..Len(b[1]) : b[1][i] = Zero
    \/ \E i \in 1..Len(b[2]) : b[2][i] = LevelNone

(* After the batch every listed account has the record that                 *)
(* addVerifiedAddress with its (last listed) level and jurisdiction and     *)
(* the batch's expiry writes, and is in the set; the others are untouched.  *)
BatchWritesAsSingle(b) ==
    LET reg == BatchVerifyResult(b[1], b[2], b[3])
        expirationDate == now + registry.defaultExpirationPeriod
    IN \A a \in Addresses :
          IF SetContains(b[1], a)
          THEN LET i == CHOOSE k \in 1..Len(b[1]) :
                          /\ b[1][k] = a
                          /\ \A m \in (k + 1)..Len(b[1]) : b[1][m] # a
               IN /\ reg.identities[a]
                      = Onboarded(registry, a, b[2][i], b[3][i],
                                  expirationDate).identities[a]
                  /\ SetContains(reg.verifiedAddresses, a)
          ELSE /\ reg.identities[a] = registry.identities[a]
               /\ SetContains(reg.verifiedAddresses, a)
                    = SetContains(registry.verifiedAddresses, a)

(* Claim C26 as stated, for the owner and for a caller that is no agent:    *)
(* batchVerifyAddresses is all-or-nothing. A batch                          *)
(* whose arrays differ in length or that holds an element a single          *)
(* addVerifiedAddress would reject (zero address, level None) is rejected   *)
(* and changes nothing; every other batch of an authorized caller is        *)
(* accepted and leaves each listed account with the record of a single     *)
(* addVerifiedAddress at the batch's expiry.                                *)
C26_BatchAllOrNothing ==
    \A b \in Batches, s \in {Admin, "C"} :
       IF BatchRejected(b) \/ ~OnlyAuthorized(s)
       THEN ~BatchVerifyAllowed(s, b[1], b[2], b[3], b[4])
       ELSE /\ BatchVerifyAllowed(s, b[1], b[2], b[3], b[4])
            /\ BatchWritesAsSingle(b)

(* Claim C26, amended: as stated, except that a batch is also rejected,     *)
(* and changes nothing, when the current time plus the default expiration   *)
(* period does not fit in 256 bits.                                         *)
C26_BatchAllOrNothingNoOverflow ==
    \A b \in Batches, s \in {Admin, "C"} :
       IF \/ BatchRejected(b)
          \/ ~OnlyAuthorized(s)
          \/ now + registry.defaultExpirationPeriod > MaxUint
       THEN ~BatchVerifyAllowed(s, b[1], b[2], b[3], b[4])
       ELSE /\ BatchVerifyAllowed(s, b[1], b[2], b[3], b[4])
            /\ BatchWritesAsSingle(b)

(* A batch of B and A was accepted: both records carry the batch's          *)
(* jurisdiction and one expiry, the levels are those listed.                *)
C26_Witness ==
    /\ registry.verifiedAddresses = <<"B", "A">>
    /\ registry.identities["A"].jurisdiction = "KP"
    /\ registry.identities["B"].jurisdiction = "KP"
    /\ registry.identities["A"].level = LevelBasic
    /\ registry.identities["B"].level = LevelAccredited
    /\ registry.identities["A"].expirationDate
         = registry.identities["B"].expirationDate
    /\ registry.identities["A"].expirationDate = now + 1
    /\ registry.defaultExpirationPeriod = 1

-----------------------------------------------------------------------------
(* The caller is the current owner or is on the agent list. *)
OwnerOrAgent(s) == s = registry.owner \/ s \in registry.authorizedAgents

(* Claim C27: addVerifiedAddress, batchVerifyAddresses, removeVerification  *)
(* and updateVerificationLevel are accepted only from the current owner or  *)
(* an account on the agent list, and the current owner is accepted by each  *)
(* of them whenever its other requirements hold, whatever the agent list    *)
(* and whoever owned the registry before; a call that is not accepted is    *)
(* no step and changes nothing.                                             *)
C27_OwnerOrAgentOnly ==
    \A s \in Callers :
       /\ OwnerOrAgent(s)
             \/ ~AddVerifiedAddressAllowed(s, "A", LevelBasic, MaxTime)
       /\ OwnerOrAgent(s)
             \/ ~BatchVerifyAllowed(s, <<"A">>, <<LevelBasic>>, <<"KP">>, <<"h">>)
       /\ OwnerOrAgent(s) \/ ~RemoveVerificationAllowed(s, "A")
       /\ OwnerOrAgent(s)
             \/ ~UpdateVerificationLevelAllowed(s, "A", LevelAccredited)
       /\ s = registry.owner
             => /\ AddVerifiedAddressAllowed(s, "A", LevelBasic, MaxTime)
                /\ BatchVerifyAllowed(s, <<"A">>, <<LevelBasic>>, <<"KP">>,
                                      <<"h">>)
                /\ registry.identities["A"].isVerified
                     => /\ RemoveVerificationAllowed(s, "A")
                        /\ UpdateVerificationLevelAllowed(s, "A",
                                                          LevelAccredited)

(* The registry was handed to B, which took the deployer off the agent     *)
(* list and put C on it; B is no agent and yet accepted. A's record was     *)
(* written by a batch and raised to Accredited.                             *)
C27_Witness ==
    /\ registry.owner = "B"
    /\ registry.authorizedAgents = {"C"}
    /\ registry.identities["A"].isVerified
    /\ registry.identities["A"].level = LevelAccredited
    /\ registry.identities["A"].jurisdiction = "KP"

-----------------------------------------------------------------------------
(* Claim C28: updateVerificationLevel(account, level) is rejected when the  *)
(* level is None or the account is unverified, an account whose record has  *)
(* expired (isVerified(account) is false) and was not cleaned up included;  *)
(* otherwise an authorized caller is accepted and only the level of that    *)
(* account's record changes.                                                *)
C28_UpdateNeedsVerified ==
    \A s \in Callers, a \in RegAccounts, l \in Levels :
       IF l = LevelNone \/ ~RegistryIsVerified(a)
       THEN ~UpdateVerificationLevelAllowed(s, a, l)
       ELSE OnlyAuthorized(s)
            => /\ UpdateVerificationLevelAllowed(s, a, l)
               /\ [registry EXCEPT !.identities[a].level = l].identities[a]
                    = [registry.identities[a] EXCEPT !.level = l]

-----------------------------------------------------------------------------
-----------------------------------------------------------------------------
(* Claim C30: a TransferLimitRule always has a cap enabled: the constructor *)
(* rejects two zero caps and no sequence of setMaxTokensPerInvestor and     *)
(* setMaxInvestmentAmount leaves maxTokensPerInvestor and                   *)
(* maxInvestmentAmount both at zero.                                        *)
C30_SomeCapEnabled ==
    tlr.maxTokensPerInvestor > 0 \/ tlr.maxInvestmentAmount > 0

-----------------------------------------------------------------------------
(* Transfers being disabled blocks every transfer and transferFrom, and      *)
(* only the owner can enable them.                                           *)
BlockedWhileDisabled ==
    ~token.transfersEnabled =>
        /\ \A s \in Accounts, to \in Accounts, amount \in 0..MaxSupply :
              ~ENABLED Transfer(s, to, amount)
        /\ \A s \in Accounts, from \in Accounts, to \in Accounts,
              amount \in 0..MaxSupply :
              ~ENABLED TransferFrom(s, from, to, amount)
        /\ \A s \in Callers :
              s # token.owner => ~ENABLED SetTransfersEnabled(s, TRUE)

-----------------------------------------------------------------------------
(* A step raises the total supply by amount and credits the whole of it to   *)
(* the account to.                                                           *)
Credited(to, amount) ==
    /\ amount > 0
    /\ token'.totalSupply = token.totalSupply + amount
    /\ token'.balances = [token.balances EXCEPT ![to] = @ + amount]

(* The owner's mint to a verified account within maxSupply is accepted on a  *)
(* token that is not paused, whatever transfersEnabled is, and writes        *)
(* exactly amount to that account's balance.                                 *)
MintAcceptedWhenVerified ==
    \A to \in Accounts, amount \in 0..MaxSupply :
        (RegistryIsVerified(to) /\ ~token.paused
         /\ token.totalSupply + amount <= token.maxSupply)
        => /\ ENABLED Mint(token.owner, to, amount)
           /\ MintResult(to, amount).balances =
                 [token.balances EXCEPT ![to] = @ + amount]

-----------------------------------------------------------------------------
RECURSIVE SumOfBalances(_)
(* The sum of the balances of the addresses of a set. *)
SumOfBalances(set) ==
    IF set = {} THEN 0
    ELSE LET a == CHOOSE x \in set : TRUE
         IN token.balances[a] + SumOfBalances(set \ {a})

(* C33: totalSupply never exceeds maxSupply, a mint that would raise it      *)
(* above maxSupply is rejected, and totalSupply equals the sum of all        *)
(* balances after any sequence of mints, burns and transfers.                *)
C33_SupplyCappedAndConserved ==
    /\ token.totalSupply <= token.maxSupply
    /\ token.totalSupply = SumOfBalances(Addresses)
    /\ \A s \in Callers, to \in Accounts, amount \in Amounts :
          token.totalSupply + amount > token.maxSupply
          => ~ENABLED Mint(s, to, amount)

(* The supply stands at maxSupply, spread over two holders, so that every    *)
(* further mint of a positive amount would exceed the cap.                   *)
C33_Witness ==
    /\ token.totalSupply = token.maxSupply
    /\ token.balances["A"] > 0
    /\ token.balances["B"] > 0
    /\ token.transfersEnabled

-----------------------------------------------------------------------------
(* Every mint, burn, transfer and transferFrom is rejected. *)
LedgerFrozen ==
    /\ \A s \in Callers, to \in Accounts, amount \in Amounts :
          ~ENABLED Mint(s, to, amount)
    /\ \A s \in Callers, from \in Accounts, amount \in Amounts :
          ~ENABLED Burn(s, from, amount)
    /\ \A s \in Accounts, to \in Accounts, amount \in Amounts :
          ~ENABLED Transfer(s, to, amount)
    /\ \A s \in Accounts, from \in Accounts, to \in Accounts,
          amount \in Amounts : ~ENABLED TransferFrom(s, from, to, amount)

(* C34: while the token is paused every mint, burn, transfer and             *)
(* transferFrom is rejected and no balance and no total supply changes;      *)
(* pause() and unpause() change the paused flag and nothing else, so after   *)
(* unpause() the operations meet the state, and with it the conditions, they *)
(* met before the pause.                                                     *)
C34_PausedFreezesLedger ==
    /\ [](token.paused => LedgerFrozen)
    /\ [][token.paused =>
             /\ token'.balances = token.balances
             /\ token'.totalSupply = token.totalSupply]_vars
    /\ [][token'.paused # token.paused =>
             /\ token' = [token EXCEPT !.paused = ~token.paused]
             /\ UNCHANGED <<registry, compliance, ilr, geo, acc, hpr, tlr, now, factory>>]_vars

(* The token is paused in a state in which, but for the pause, a transfer, a *)
(* transferFrom, a mint and a burn would all be accepted.                    *)
C34_Witness ==
    /\ token.paused
    /\ token.transfersEnabled
    /\ token.identityRegistry
    /\ RegistryIsVerified("A")
    /\ RegistryIsVerified("B")
    /\ token.balances["A"] = 1
    /\ token.allowances[<<"A", "C">>] = MaxSupply

-----------------------------------------------------------------------------
(* C35: after initializeInvestorCount(accounts), whatever the flags and the  *)
(* counter were before and whatever the list, every listed account is        *)
(* flagged exactly when its balance is positive, and currentInvestorCount is *)
(* the number of distinct listed accounts with a positive balance.           *)
C35_InitializeRecounts ==
    \A investors \in ListsOver(Accounts) :
        LET after == InitializeInvestorCountResult(investors)
            listed == {investors[i] : i \in 1..Len(investors)}
        IN /\ \A a \in listed : after.isInvestor[a] = (BalanceOf(a) > 0)
           /\ after.currentInvestorCount =
                 Cardinality({a \in listed : BalanceOf(a) > 0})

-----------------------------------------------------------------------------
(* C36: deployRWAToken with a sufficient fee, a non-empty name and symbol,   *)
(* maxSupply > 0, framework "reg-d", enableInvestorLimit = true and          *)
(* maxInvestors > 0 succeeds; afterwards the new compliance module holds an  *)
(* InvestorLimitRule whose token is the new token, and token, compliance     *)
(* module and registry are owned by the caller.                              *)
C36_RegDDeploymentSucceeds ==
    factory.deployedTokens = {} =>
        \A s \in Deployers, value \in Fees, maxSupply \in 1..MaxSupply,
           n \in 1..MaxInvestorsBound :
            value >= factory.deploymentFee =>
                LET params == RegDParams(maxSupply, n)
                    deployed == DeployRWATokenResult(s, params)
                IN /\ ENABLED DeployRWAToken(s, value, params)
                   /\ SetContains(deployed.compliance.rules, RuleILR)
                   /\ deployed.ilr.token = TokenAddress
                   /\ deployed.token.owner = s
                   /\ deployed.compliance.owner = s
                   /\ deployed.registry.owner = s

-----------------------------------------------------------------------------
(* C37: once acquisitionTimestamp is set for an account, no later            *)
(* recordAcquisition or batchRecordAcquisitions call moves it, so an elapsed *)
(* holding period is never restarted.                                        *)
C37_FirstAcquisitionKept ==
    [][\A a \in HoldingAccounts :
          hpr.acquisitionTimestamp[a] # 0
          => hpr'.acquisitionTimestamp[a] = hpr.acquisitionTimestamp[a]]_vars

-----------------------------------------------------------------------------
(* C38: for every account, time and configuration of the active rule,        *)
(* getTimeRemaining(a) is 0 exactly when a regular transfer sent by a        *)
(* passes; while it is not 0 the transfer is blocked, and as time advances   *)
(* with the configuration left alone the remaining time counts down by the   *)
(* time elapsed, reaching 0 (the first pass) exactly that many seconds       *)
(* later; an account with no recorded acquisition stays blocked.             *)
C38_TimeRemainingMatchesRule ==
    /\ [](\A a \in HoldingAccounts, to \in Accounts :
             hpr.active =>
                /\ ~GetTimeRemaining(a).reverts
                /\ GetTimeRemaining(a).result = 0
                   <=> HPRCanTransfer(a, to, 1) = "true"
                /\ GetTimeRemaining(a).result # 0
                   => HPRCanTransfer(a, to, 1) = "false")
    /\ [][\A a \in HoldingAccounts :
             (hpr.active /\ hpr' = hpr /\ now' = now + 1) =>
                LET before == GetTimeRemaining(a).result
                    after == GetTimeRemaining(a)'.result
                IN IF hpr.acquisitionTimestamp[a] = 0
                      /\ a \notin hpr.exemptAddresses
                   THEN after = MaxUint
                   ELSE IF before = 0 THEN after = 0
                   ELSE after = before - 1]_vars

-----------------------------------------------------------------------------
(* C39: an active AccreditedInvestorRule never passes a mint or a transfer   *)
(* to a recipient that is not exempt and whose verification is absent,       *)
(* removed or expired (now >= expirationDate) at the current time, whatever  *)
(* minimumLevel the owner has set and whatever the registry went through.    *)
C39_UnverifiedRecipientBlocked ==
    acc.active =>
       \A from \in Addresses, to \in RegAccounts, amount \in 0..MaxSupply :
          (to \notin acc.exemptAddresses
           /\ (~registry.identities[to].isVerified
               \/ now >= registry.identities[to].expirationDate))
          => ACCCanTransfer(from, to, amount) # "true"

-----------------------------------------------------------------------------
(* C40: once the registry's ownership has passed to another account, the     *)
(* previous owner can no longer add, update or remove verification records,  *)
(* the new owner not having added it with addAuthorizedAgent.                *)
C40_PreviousOwnerLosesAccess ==
    [][\A previous \in Callers :
          (registry.owner = previous /\ registry'.owner # previous)
          => /\ ~AddVerifiedAddressAllowed(previous, "A", LevelBasic, MaxTime)'
             /\ ~BatchVerifyAllowed(previous, <<"A">>, <<LevelBasic>>,
                                    <<"KP">>, <<"h">>)'
             /\ ~RemoveVerificationAllowed(previous, "A")'
             /\ ~UpdateVerificationLevelAllowed(previous, "A",
                                                LevelAccredited)']_vars

=============================================================================
